---- MODULE Spec2Model ----
(***************************************************************************)
(* A model of the anki-assimil tool (davidrosenberg/anki-assimil).         *)
(*                                                                         *)
(* The repository is a set of command-line pipelines, so the module holds  *)
(* one specification per component:                                        *)
(*   SpecPersist  the persistence store (v3/src/persistence.py)            *)
(*                                                                         *)
(* Text is modelled as a sequence of characters.  Hebrew text is a         *)
(* sequence of Unicode code points (natural numbers), so that the          *)
(* character classes of the tokenizer and Python's string order are the    *)
(* real ones; ASCII text is a sequence of one-character strings.           *)
(***************************************************************************)
EXTENDS Integers, Sequences, FiniteSets, TLC

VARIABLES
    \* ---- persistence store (PersistenceManager) ----
    approved_matches,   \* ordered dict: sequence of [key, val]
    extra_matches,      \* ordered dict: sequence of [key, val]
    unmatched_words,    \* ordered dict: sequence of [key, val]
    approved_file,      \* assimil-words.csv: [exists, header, rows]
    extra_file,         \* assimil-words-extra.csv: [exists, header, rows]
    unmatched_file,     \* assimil-words-unmatched.csv: [exists, header, rows]
    pm_ret,             \* the last operation and what it returned
    pm_calls,           \* history: add_unmatched_word calls per key since construction
    pm_base,            \* history: the attempts of each key when the manager was constructed
    \* ---- media mapping (create_media_mapping_file) ----
    course_files,       \* the .mp3 files of the course directory, in rglob's order
    media_mapping,      \* ordered dict: anki filename -> relative path
    map_done,           \* whether the mapping has been built
    \* ---- audio metadata (extract_mp3_metadata) ----
    md_album,           \* the album tag of the file
    md_title,           \* the title tag of the file
    md_out,             \* what extract_mp3_metadata returned
    md_done,
    \* ---- tag utilities (tags.py) ----
    tg_course,          \* the deck name given
    tg_lesson,          \* the lesson number given
    tg_list,            \* the tag list handed to parse_lesson_from_tags
    tg_generated,       \* what generate_lesson_tags returned
    tg_parsed,          \* what parse_lesson_from_tags returned
    tg_pc,
    \* ---- incremental audio extraction (extract_audio_incremental) ----
    inc_rows,           \* the rows of data/assimil.csv
    inc_files,          \* the scanned .mp3 files: their (album, title) tags
    inc_new,            \* new_lessons
    inc_skipped,        \* skipped_count
    inc_done,
    \* ---- matcher (AnkiMatcher) ----
    mt_deck,            \* the target deck in Anki: its cards, in findCards order
    cards,              \* self.cards
    hebrew_lookup,      \* self.hebrew_lookup
    similarity_threshold, \* self.similarity_threshold
    mt_loaded,          \* what load_deck_cards returned
    mt_word,            \* the last lesson word looked up
    mt_max,             \* the last max_candidates
    mt_result,          \* what find_matches returned
    mt_pc,
    \* ---- deck and media sync (deck_sync.py) against Anki ----
    sy_translations,    \* the completed translations, in spreadsheet order
    anki_notes,         \* Anki: the notes of the deck
    anki_media,         \* Anki: the names in its media folder
    sy_mapping_file,    \* the media mapping file of the course directory
    sy_run,             \* 1 or 2: which sync run is under way
    sy_pc,              \* "cards", "media" or "done"
    sy_ret,             \* the counts the last sync function returned
    sy_addNote,         \* per run: addNote requests issued
    sy_storeMediaFile,  \* per run: storeMediaFile requests issued
    sy_failed,          \* per run: whether a query / a write request failed
    sy_before,          \* the notes of the deck before the last sync_phrase_cards
    sy_added,           \* the records the last sync_phrase_cards sent addNote for
    sy_actions,         \* the AnkiConnect actions sync_phrase_cards has issued
    sy_media_before,    \* the media of the bridge before the last sync_media_files
    sy_stored,          \* the names the last sync_media_files sent storeMediaFile for
    \* ---- deck cache (DeckCache) ----
    ca_files,           \* the files of the cache directory, by file name
    ca_now,             \* the clock, in hours
    ca_edited,          \* whether the deck in Anki was edited since the start
    ca_op,              \* the last cache operation: its name, arguments and result
    ca_before,          \* the files of the cache directory before the last operation
    \* ---- the commands (v3/main.py, v2/main.py) ----
    cm_gen,             \* 2 or 3: which generation's main.py
    cm_cmd,             \* the command
    cm_settings,        \* whether the settings file exists
    cm_lessons,         \* the --lessons option
    cm_csv,             \* whether the csv_file argument of apply-tags exists
    cm_bridge,          \* whether AnkiConnect answers
    cm_exit,            \* the exit status of the command
    cm_report,          \* the failures the command printed
    cm_pc,
    \* ---- normalising one word (tokenizer.py) ----
    nz_in,              \* the word handed to normalize_hebrew_word
    nz_out,             \* what it returned
    nz_pc,
    \* ---- cache file names (DeckCache) ----
    nm_deck,            \* a deck name
    nm_cache,           \* what the calls of _get_cache_path returned, in order
    nm_meta,            \* what the calls of _get_metadata_path returned, in order
    \* ---- word extraction (WordExtractor) ----
    wx_course,          \* the lesson directories of the course: name and Hebrew words
    wx_max,             \* max_lessons; 0 stands for None
    seen_words,         \* the normalized words seen so far
    lesson_words,       \* lesson number -> the LessonWord records of the lesson
    wx_pc,
    \* ---- the matching pipeline (WordMatchingPipeline) ----
    pl_course,          \* the lesson directories of the course
    pl_deck,            \* the cards of the Hebrew deck in Anki
    pl_max,             \* max_lessons of the runs; 0 stands for None
    lesson_matches,     \* lesson number -> the pending LessonWordMatch records
    pl_runs,            \* how many times process_lessons has run
    pl_before,          \* the processed keys when the pipeline of this run was built
    pl_unmatched_before, \* the unmatched records at that moment
    pl_queried,         \* the words find_matches was asked for in this run
    pl_pc,              \* "new" before a pipeline is built, "built" before it runs
    \* ---- live tag application (apply_tags_to_anki, apply_approved_matches, apply-tags) ----
    ap_items,           \* the batch: lesson, card and should_tag of each item
    ap_outcomes,        \* per item: how AnkiConnect answers cardsInfo and addTags
    ap_dry_run,         \* the dry_run argument
    ap_fn,              \* which of the three ran
    ap_stats,           \* the counters it ended with
    ap_pc,
    \* ---- import of the V1 match files (v1_importer.py) ----
    im_v1_words,        \* the rows of v1/assimil-words.csv
    im_v1_extra,        \* the rows of v1/assimil-words-extra.csv
    im_deck,            \* the Hebrew fields findCards finds a card for
    im_dry_run,         \* the dry_run argument of the run under way
    im_runs,            \* how many imports have been run
    im_stats,           \* the statistics of the last import function
    im_pc,
    \* ---- Generation-2 export: the curated word matches (v2/src/anki_export.py) ----
    ex_words,           \* the rows of the word-matches file
    ex_extra,           \* the rows of the extra-matches file
    first_match,        \* Anki word -> lesson label
    ex_pc,
    \* ---- from the extracted records to the media sync ----
    rs_course,          \* the audio files of the course: directory, stem, album and title tags
    rs_media,           \* the media files of the bridge
    rs_records,         \* the phrase records the extraction produced
    rs_mapping,         \* the media mapping built for the course
    rs_ret,             \* the counts sync_media_files returned
    rs_pc

persistVars == <<approved_matches, extra_matches, unmatched_words,
                 approved_file, extra_file, unmatched_file, pm_ret, pm_calls,
                 pm_base>>

mapVars == <<course_files, media_mapping, map_done>>
metaVars == <<md_album, md_title, md_out, md_done>>
tagVars == <<tg_course, tg_lesson, tg_list, tg_generated, tg_parsed, tg_pc>>
incVars == <<inc_rows, inc_files, inc_new, inc_skipped, inc_done>>
matchVars == <<mt_deck, cards, hebrew_lookup, similarity_threshold, mt_loaded, mt_word,
               mt_max, mt_result, mt_pc>>
syncVars == <<sy_translations, anki_notes, anki_media, sy_mapping_file, sy_run, sy_pc,
              sy_ret, sy_addNote, sy_storeMediaFile, sy_failed,
              sy_before, sy_added, sy_actions, sy_media_before, sy_stored>>
cacheVars == <<ca_files, ca_now, ca_edited, ca_op, ca_before>>
cmdVars == <<cm_gen, cm_cmd, cm_settings, cm_lessons, cm_csv, cm_bridge, cm_exit, cm_report, cm_pc>>
normVars == <<nz_in, nz_out, nz_pc>>
nameVars == <<nm_deck, nm_cache, nm_meta>>
extractVars == <<wx_course, wx_max, seen_words, lesson_words, wx_pc>>
pipeVars == <<pl_course, pl_deck, pl_max, lesson_matches, pl_runs, pl_before, pl_unmatched_before, pl_queried, pl_pc>>
applyVars == <<ap_items, ap_outcomes, ap_dry_run, ap_fn, ap_stats, ap_pc>>
importVars == <<im_v1_words, im_v1_extra, im_deck, im_dry_run, im_runs, im_stats, im_pc>>
exportVars == <<ex_words, ex_extra, first_match, ex_pc>>
resolveVars == <<rs_course, rs_media, rs_records, rs_mapping, rs_ret, rs_pc>>

vars == <<persistVars, mapVars, metaVars, tagVars, incVars, matchVars, syncVars, cacheVars, cmdVars, normVars, nameVars, extractVars, pipeVars, applyVars, importVars, exportVars, resolveVars>>

\* what the actions of one component leave alone
NotPersist == <<mapVars, metaVars, tagVars, incVars, matchVars, syncVars, cacheVars, cmdVars, normVars, nameVars, extractVars, pipeVars, applyVars, importVars, exportVars, resolveVars>>
NotMap == <<persistVars, metaVars, tagVars, incVars, matchVars, syncVars, cacheVars, cmdVars, normVars, nameVars, extractVars, pipeVars, applyVars, importVars, exportVars, resolveVars>>
NotMeta == <<persistVars, mapVars, tagVars, incVars, matchVars, syncVars, cacheVars, cmdVars, normVars, nameVars, extractVars, pipeVars, applyVars, importVars, exportVars, resolveVars>>
NotTag == <<persistVars, mapVars, metaVars, incVars, matchVars, syncVars, cacheVars, cmdVars, normVars, nameVars, extractVars, pipeVars, applyVars, importVars, exportVars, resolveVars>>
NotInc == <<persistVars, mapVars, metaVars, tagVars, matchVars, syncVars, cacheVars, cmdVars, normVars, nameVars, extractVars, pipeVars, applyVars, importVars, exportVars, resolveVars>>
NotMatch == <<persistVars, mapVars, metaVars, tagVars, incVars, syncVars, cacheVars, cmdVars, normVars, nameVars, extractVars, pipeVars, applyVars, importVars, exportVars, resolveVars>>
NotSync == <<persistVars, mapVars, metaVars, tagVars, incVars, matchVars, cacheVars, cmdVars, normVars, nameVars, extractVars, pipeVars, applyVars, importVars, exportVars, resolveVars>>
\* what the cached load of the matcher leaves alone
NotCacheMatch == <<persistVars, mapVars, metaVars, tagVars, incVars, syncVars, cmdVars, normVars, nameVars, extractVars, pipeVars, applyVars, importVars, exportVars, resolveVars>>
NotCache == <<persistVars, mapVars, metaVars, tagVars, incVars, matchVars, syncVars, cmdVars, normVars, nameVars, extractVars, pipeVars, applyVars, importVars, exportVars, resolveVars>>
NotCmd == <<persistVars, mapVars, metaVars, tagVars, incVars, matchVars, syncVars, cacheVars, normVars, nameVars, extractVars, pipeVars, applyVars, importVars, exportVars, resolveVars>>
NotNorm == <<persistVars, mapVars, metaVars, tagVars, incVars, matchVars, syncVars, cacheVars, cmdVars, nameVars, extractVars, pipeVars, applyVars, importVars, exportVars, resolveVars>>
NotName == <<persistVars, mapVars, metaVars, tagVars, incVars, matchVars, syncVars, cacheVars, cmdVars, normVars, extractVars, pipeVars, applyVars, importVars, exportVars, resolveVars>>
NotExtract == <<persistVars, mapVars, metaVars, tagVars, incVars, matchVars, syncVars, cacheVars, cmdVars, normVars, nameVars, pipeVars, applyVars, importVars, exportVars, resolveVars>>
NotPipe == <<persistVars, mapVars, metaVars, tagVars, incVars, matchVars, syncVars, cacheVars, cmdVars, normVars, nameVars, extractVars, applyVars, importVars, exportVars, resolveVars>>
\* the pipeline also acts on the persistence store and on the matcher
NotPipeRun == <<mapVars, metaVars, tagVars, incVars, syncVars, cacheVars, cmdVars, normVars, nameVars, extractVars, applyVars, importVars, exportVars, resolveVars>>
NotApply == <<persistVars, mapVars, metaVars, tagVars, incVars, matchVars, syncVars, cacheVars, cmdVars, normVars, nameVars, extractVars, pipeVars, importVars, exportVars, resolveVars>>
NotImport == <<persistVars, mapVars, metaVars, tagVars, incVars, matchVars, syncVars, cacheVars, cmdVars, normVars, nameVars, extractVars, pipeVars, applyVars, exportVars, resolveVars>>
NotImportStore == <<mapVars, metaVars, tagVars, incVars, matchVars, syncVars, cacheVars, cmdVars, normVars, nameVars, extractVars, pipeVars, applyVars, exportVars, resolveVars>>
NotExport == <<persistVars, mapVars, metaVars, tagVars, incVars, matchVars, syncVars, cacheVars, cmdVars, normVars, nameVars, extractVars, pipeVars, applyVars, importVars, resolveVars>>
NotResolve == <<persistVars, mapVars, metaVars, tagVars, incVars, matchVars, syncVars, cacheVars, cmdVars, normVars, nameVars, extractVars, pipeVars, applyVars, importVars, exportVars>>

(***************************************************************************)
(* Generic helpers                                                         *)
(***************************************************************************)
Range(s) == {s[i] : i \in 1..Len(s)}

RECURSIVE SeqFilter(_, _)
\* the elements of s that are in the set keep, in order
SeqFilter(s, keep) ==
    IF s = <<>> THEN <<>>
    ELSE IF Head(s) \in keep THEN <<Head(s)>> \o SeqFilter(Tail(s), keep)
    ELSE SeqFilter(Tail(s), keep)

RECURSIVE Flatten(_)
Flatten(ss) == IF ss = <<>> THEN <<>> ELSE Head(ss) \o Flatten(Tail(ss))

Digits == <<"0", "1", "2", "3", "4", "5", "6", "7", "8", "9">>
DigitChars == Range(Digits)
DigitVal(c) == CHOOSE d \in 0..9 : Digits[d + 1] = c

RECURSIVE FormatInt(_)
\* str(n) for n >= 0
FormatInt(n) == IF n < 10 THEN <<Digits[n + 1]>>
                ELSE FormatInt(n \div 10) \o <<Digits[(n % 10) + 1]>>

RECURSIVE ZeroPad(_, _)
\* f"{n:0<width>d}" for n >= 0: left-padded with zeros to at least width
ZeroPad(s, width) == IF Len(s) >= width THEN s ELSE ZeroPad(<<"0">> \o s, width)

RECURSIVE ParseInt(_)
\* int(s) for a non-empty run of ASCII digits
ParseInt(s) == IF Len(s) = 1 THEN DigitVal(s[1])
               ELSE 10 * ParseInt(SubSeq(s, 1, Len(s) - 1)) + DigitVal(s[Len(s)])

(***************************************************************************)
(* Hebrew normalisation (v3/src/tokenizer.py)                              *)
(***************************************************************************)
NIKUD_LO == 1456     \* U+05B0
NIKUD_HI == 1476     \* U+05C4
TEAMIM_LO == 1425    \* U+0591
TEAMIM_HI == 1455    \* U+05AF
SPACE == 32

\* one character of undigraph's chain of str.replace calls
UndigraphChar(c) ==
    CASE c = 1520  -> <<1493, 1493>>      \* U+05F0 -> vav vav
      [] c = 1521  -> <<1493, 1497>>      \* U+05F1 -> vav yod
      [] c = 1522  -> <<1497, 1497>>      \* U+05F2 -> yod yod
      [] c = 64335 -> <<1488, 1500>>      \* U+FB4F -> alef lamed
      [] c = 8205  -> <<>>                \* U+200D removed
      [] OTHER     -> <<c>>

undigraph(x) == Flatten([i \in 1..Len(x) |-> UndigraphChar(x[i])])

IsMark(c) == (NIKUD_LO <= c /\ c <= NIKUD_HI) \/ (TEAMIM_LO <= c /\ c <= TEAMIM_HI)

RECURSIVE StripMarks(_)
\* re.sub("[nikud teamim]", "", word)
StripMarks(w) ==
    IF w = <<>> THEN <<>>
    ELSE IF IsMark(Head(w)) THEN StripMarks(Tail(w))
    ELSE <<Head(w)>> \o StripMarks(Tail(w))

\* the white space str.strip() removes: space, tab and no-break space stand for it
Whitespace == {SPACE, 9, 160}

RECURSIVE LStrip(_)
LStrip(w) == IF w # <<>> /\ Head(w) \in Whitespace THEN LStrip(Tail(w)) ELSE w
RECURSIVE RStrip(_)
RStrip(w) == IF w # <<>> /\ w[Len(w)] \in Whitespace
             THEN RStrip(SubSeq(w, 1, Len(w) - 1)) ELSE w
Strip(w) == RStrip(LStrip(w))

\* normalize_hebrew_word that strips the white space before it removes the marks
normalize_hebrew_word_StripFirst(word) == undigraph(StripMarks(Strip(word)))

normalize_hebrew_word(word) == Strip(undigraph(StripMarks(word)))

(***************************************************************************)
(* Persistence store (v3/src/persistence.py)                               *)
(***************************************************************************)
MaxAttempts == 2     \* add_unmatched_word is not called on a counter at this value


\* shin lamed vav mem-sofit: the word of the template's example row
Shalom == <<1513, 1500, 1493, 1501>>
\* the same word pointed (shin + qamats)
ShalomPointed == <<1513, 1464, 1500, 1493, 1501>>
\* bet vav-yod ligature resh
Boker == <<1489, 1521, 1512>>
\* the (lesson, word) pairs the operations are called with: two spellings of one
\* key, and a third pair that differs from it in the lesson and in the word
PmInputs == {<<1, Shalom>>, <<1, ShalomPointed>>, <<2, Boker>>}
CardIds == {1234, 5678}
\* The data directory is taken to be writable: every open(..., 'w') succeeds.  The
\* operations keep their except branch (file unchanged, False returned) under
\* writeOk = FALSE, which no action of SpecPersist chooses.
DiskOutcomes == {TRUE}

\* a CSV file: whether it exists, its header line (the column names) and its rows
NoFile == [exists |-> FALSE, header |-> {}, rows |-> <<>>]
CsvFile(header, rows) == [exists |-> TRUE, header |-> header, rows |-> rows]

\* ordered dict (Python dict keeps insertion order)
DictKeys(d) == {d[i].key : i \in 1..Len(d)}
DictGet(d, k) == (CHOOSE i \in 1..Len(d) : d[i].key = k)
DictVal(d, k) == d[DictGet(d, k)].val
DictSet(d, k, v) ==
    IF k \in DictKeys(d)
    THEN [d EXCEPT ![DictGet(d, k)] = [key |-> k, val |-> v]]
    ELSE Append(d, [key |-> k, val |-> v])
DictValues(d) == [i \in 1..Len(d) |-> d[i].val]

\* f"L{lesson:03d}:{normalized}"
make_word_key(lesson, heb_word) ==
    <<"L">> \o ZeroPad(FormatInt(lesson), 3) \o <<":">> \o normalize_hebrew_word(heb_word)

is_word_processed(lesson, heb_word) ==
    LET key == make_word_key(lesson, heb_word) IN
    \/ key \in DictKeys(approved_matches)
    \/ key \in DictKeys(extra_matches)
    \/ key \in DictKeys(unmatched_words)

get_processed_words ==
    DictKeys(approved_matches) \cup DictKeys(extra_matches) \cup DictKeys(unmatched_words)

StoredMatch(lesson, heb_word, anki_hebrew, anki_english, card_id, match_type, score) ==
    [lesson |-> lesson, heb_word |-> heb_word, anki_hebrew |-> anki_hebrew,
     anki_english |-> anki_english, card_id |-> card_id,
     match_type |-> match_type, score |-> score]

UnmatchedWord(lesson, heb_word, context, attempts) ==
    [lesson |-> lesson, heb_word |-> heb_word, context |-> context, attempts |-> attempts]

\* csv.writer rows of save_approved_matches: numbers are written as text
ApprovedRow(m) ==
    [lesson |-> FormatInt(m.lesson), heb_word |-> m.heb_word,
     match_word |-> m.anki_hebrew, match_word_def |-> m.anki_english,
     score |-> FormatInt(m.score), card_id |-> FormatInt(m.card_id)]

\* csv.writer rows of _save_unmatched_words
UnmatchedRow(u) ==
    [lesson |-> FormatInt(u.lesson), heb_word |-> u.heb_word,
     context |-> u.context, attempts |-> FormatInt(u.attempts)]

ApprovedEntry(row) ==
    [key |-> make_word_key(ParseInt(row.lesson), row.heb_word),
     val |-> StoredMatch(ParseInt(row.lesson), row.heb_word, row.match_word,
                         row.match_word_def, ParseInt(row.card_id), "approved",
                         ParseInt(row.score))]

RECURSIVE LoadApprovedRows(_, _)
\* for row in reader: approved_matches[key] = match
LoadApprovedRows(rows, d) ==
    IF rows = <<>> THEN d
    ELSE LET e == ApprovedEntry(Head(rows)) IN
         LoadApprovedRows(Tail(rows), DictSet(d, e.key, e.val))

_load_approved_matches ==
    IF ~approved_file.exists THEN <<>>
    ELSE LoadApprovedRows(approved_file.rows, <<>>)

\* the two header variants: Lesson/AnkiID (legacy) or lesson/heb_word;
\* a column the header lacks reads as lesson 0 / word ''
ExtraLesson(hdr, row) ==
    IF "Lesson" \in hdr THEN ParseInt(row.Lesson)
    ELSE IF "lesson" \in hdr THEN ParseInt(row.lesson) ELSE 0
ExtraHebrew(hdr, row) ==
    IF "AnkiID" \in hdr THEN row.AnkiID
    ELSE IF "heb_word" \in hdr THEN row.heb_word ELSE <<>>

RECURSIVE LoadExtraRows(_, _, _)
LoadExtraRows(hdr, rows, d) ==
    IF rows = <<>> THEN d
    ELSE LET lesson == ExtraLesson(hdr, Head(rows))
             hebrew == ExtraHebrew(hdr, Head(rows))
         IN  IF lesson # 0 /\ hebrew # <<>>
             THEN LoadExtraRows(hdr, Tail(rows),
                     DictSet(d, make_word_key(lesson, hebrew),
                             StoredMatch(lesson, hebrew, hebrew, "(manual entry)",
                                         0, "extra", 0)))
             ELSE LoadExtraRows(hdr, Tail(rows), d)

_load_extra_matches ==
    IF ~extra_file.exists THEN <<>>
    ELSE LoadExtraRows(extra_file.header, extra_file.rows, <<>>)

UnmatchedEntry(row) ==
    [key |-> make_word_key(ParseInt(row.lesson), row.heb_word),
     val |-> UnmatchedWord(ParseInt(row.lesson), row.heb_word, row.context,
                           ParseInt(row.attempts))]

RECURSIVE LoadUnmatchedRows(_, _)
\* for row in reader: unmatched_words[key] = unmatched
LoadUnmatchedRows(rows, d) ==
    IF rows = <<>> THEN d
    ELSE LET e == UnmatchedEntry(Head(rows)) IN
         LoadUnmatchedRows(Tail(rows), DictSet(d, e.key, e.val))

_load_unmatched_words ==
    IF ~unmatched_file.exists THEN <<>>
    ELSE LoadUnmatchedRows(unmatched_file.rows, <<>>)

AllKeys == {make_word_key(in[1], in[2]) : in \in PmInputs}

\* PersistenceManager(): a run of the tool loads the three files
PersistenceManagerInit ==
    /\ approved_matches' = _load_approved_matches
    /\ extra_matches' = _load_extra_matches
    /\ unmatched_words' = _load_unmatched_words
    /\ pm_ret' = [op |-> "init", result |-> TRUE, word |-> <<>>]
    /\ pm_calls' = [k \in AllKeys |-> 0]
    /\ pm_base' = [k \in AllKeys |->
                     IF k \in DictKeys(_load_unmatched_words)
                     THEN DictVal(_load_unmatched_words, k).attempts ELSE 0]
    /\ UNCHANGED <<approved_file, extra_file, unmatched_file>>
    /\ UNCHANGED NotPersist

\* save_approved_matches that writes only the matches passed in, without the merge
MergeMatches_Fresh(d, matches) ==
    [i \in 1..Len(matches) |->
        [key |-> make_word_key(matches[i].lesson, matches[i].heb_word), val |-> matches[i]]]

RECURSIVE MergeMatches(_, _)
\* for match in matches: approved_matches[key] = match
MergeMatches(d, matches) ==
    IF matches = <<>> THEN d
    ELSE MergeMatches(DictSet(d, make_word_key(Head(matches).lesson, Head(matches).heb_word),
                              Head(matches)),
                      Tail(matches))

\* save_approved_matches(matches); writeOk is whether open(..., 'w') succeeds
save_approved_matches(matches, writeOk) ==
    LET merged == MergeMatches(approved_matches, matches) IN
    /\ approved_matches' = merged
    /\ approved_file' = IF writeOk
                        THEN CsvFile({"lesson", "heb_word", "match_word", "match_word_def",
                                      "score", "card_id"},
                                     [i \in 1..Len(merged) |-> ApprovedRow(merged[i].val)])
                        ELSE approved_file
    /\ pm_ret' = [op |-> "save_approved_matches", result |-> writeOk, word |-> <<>>]
    /\ UNCHANGED <<extra_matches, unmatched_words, extra_file, unmatched_file, pm_calls,
                   pm_base>>
    /\ UNCHANGED NotPersist

_save_unmatched_words(d, writeOk) ==
    IF writeOk THEN CsvFile({"lesson", "heb_word", "context", "attempts"},
                            [i \in 1..Len(d) |-> UnmatchedRow(d[i].val)])
    ELSE unmatched_file

\* add_unmatched_word without the increment branch: the record is written anew
add_unmatched_word_Overwrite(lesson, heb_word, context, writeOk) ==
    LET key == make_word_key(lesson, heb_word)
        upd == DictSet(unmatched_words, key, UnmatchedWord(lesson, heb_word, context, 1))
    IN  /\ unmatched_words' = upd
        /\ unmatched_file' = _save_unmatched_words(upd, writeOk)
        /\ pm_ret' = [op |-> "add_unmatched_word", result |-> writeOk, word |-> heb_word]
        /\ pm_calls' = [pm_calls EXCEPT ![key] = @ + 1]
        /\ UNCHANGED <<approved_matches, extra_matches, approved_file, extra_file, pm_base>>
        /\ UNCHANGED NotPersist

\* add_unmatched_word, the update of the dict: increment attempts, or a new record
unmatched_update(d, lesson, heb_word, context) ==
    LET key == make_word_key(lesson, heb_word) IN
    IF key \in DictKeys(d)
    THEN DictSet(d, key, [DictVal(d, key) EXCEPT !.attempts = @ + 1])
    ELSE DictSet(d, key, UnmatchedWord(lesson, heb_word, context, 1))

\* add_unmatched_word(lesson, heb_word, context)
add_unmatched_word(lesson, heb_word, context, writeOk) ==
    LET key == make_word_key(lesson, heb_word)
        upd == unmatched_update(unmatched_words, lesson, heb_word, context)
    IN  /\ unmatched_words' = upd
        /\ unmatched_file' = _save_unmatched_words(upd, writeOk)
        /\ pm_ret' = [op |-> "add_unmatched_word", result |-> writeOk, word |-> heb_word]
        /\ pm_calls' = [pm_calls EXCEPT ![key] = @ + 1]
        /\ UNCHANGED <<approved_matches, extra_matches, approved_file, extra_file, pm_base>>
        /\ UNCHANGED NotPersist

\* create_extra_matches_template()
create_extra_matches_template(writeOk) ==
    /\ extra_file' =
         IF extra_file.exists \/ ~writeOk THEN extra_file
         ELSE CsvFile({"lesson", "heb_word", "card_id", "notes"},
                      << [lesson |-> <<"1">>, heb_word |-> Shalom,
                            card_id |-> <<"1","2","3","4","5","6","7","8","9","0">>,
                            notes |-> "Manual match example"] >>)
    /\ pm_ret' = [op |-> "create_extra_matches_template",
                  result |-> (extra_file.exists \/ writeOk), word |-> <<>>]
    /\ UNCHANGED <<approved_matches, extra_matches, unmatched_words,
                   approved_file, unmatched_file, pm_calls, pm_base>>
    /\ UNCHANGED NotPersist

PersistIdle ==
    /\ approved_matches = <<>>
    /\ extra_matches = <<>>
    /\ unmatched_words = <<>>
    /\ approved_file = NoFile
    /\ extra_file = NoFile
    /\ unmatched_file = NoFile
    /\ pm_ret = [op |-> "init", result |-> TRUE, word |-> <<>>]
    /\ pm_calls = [k \in AllKeys |-> 0]
    /\ pm_base = [k \in AllKeys |-> 0]

(***************************************************************************)
(* Media mapping (v3/src/deck_sync.py)                                     *)
(*                                                                         *)
(* ASCII text is a sequence of tokens: single characters where the code    *)
(* looks at characters (digits, "L", "-", "."), and a literal the code     *)
(* handles as a unit ("-Hebrew ASSIMIL", "assimil-", ".mp3", "[sound:")    *)
(* as one token.                                                           *)
(***************************************************************************)
MaxCourseFiles == 2      \* at most this many .mp3 files in the course directory

IndexOf(s, tok) == IF tok \in Range(s)
                   THEN CHOOSE i \in 1..Len(s) : s[i] = tok /\ \A j \in 1..(i - 1) : s[j] # tok
                   ELSE 0

StartsWith(s, pre) == Len(s) >= Len(pre) /\ SubSeq(s, 1, Len(pre)) = pre
EndsWith(s, suf) == Len(s) >= Len(suf) /\ SubSeq(s, Len(s) - Len(suf) + 1, Len(s)) = suf

\* a file under the course directory: the directories above its parent (each
\* followed by "/"), its parent directory's name and its stem (name without .mp3)
Mp3File(up, dir, stem) == [up |-> up, dir |-> dir, stem |-> stem]

\* str(mp3_file.relative_to(course_dir))
relative_path(f) == f.up \o f.dir \o <<"/">> \o f.stem \o <<".mp3">>

\* re.match(r'L(\d{3})-Hebrew ASSIMIL', parent_dir): anchored at the start only
lesson_match(parent_dir) ==
    /\ Len(parent_dir) >= 5
    /\ parent_dir[1] = "L"
    /\ \A i \in 2..4 : parent_dir[i] \in DigitChars
    /\ parent_dir[5] = "-Hebrew ASSIMIL"

T00_TRANSLATE == <<"T00", "-", "TRANSLATE">>

\* the mapping key that keeps the whole stem (no split on the hyphen)
anki_filename_WholeStem(lesson_num, filename) ==
    <<"assimil-", "L">> \o lesson_num \o <<".">> \o filename \o <<".mp3">>

\* base_filename = filename.split('-')[0] if '-' in filename;
\* f"assimil-L{lesson_num}.{base_filename}.mp3"
anki_filename(lesson_num, filename) ==
    LET base_filename == IF "-" \in Range(filename)
                         THEN SubSeq(filename, 1, IndexOf(filename, "-") - 1)
                         ELSE filename
    IN  <<"assimil-", "L">> \o lesson_num \o <<".">> \o base_filename \o <<".mp3">>

RECURSIVE BuildMapping(_, _)
\* for mp3_file in mp3_files: ... mapping[anki_filename] = relative_path
BuildMapping(files, mapping) ==
    IF files = <<>> THEN mapping
    ELSE LET f == Head(files) IN
         IF lesson_match(f.dir) /\ f.stem # T00_TRANSLATE
         THEN BuildMapping(Tail(files),
                  DictSet(mapping, anki_filename(SubSeq(f.dir, 2, 4), f.stem),
                          relative_path(f)))
         ELSE BuildMapping(Tail(files), mapping)

create_media_mapping_file(mp3_files) == BuildMapping(mp3_files, <<>>)

LessonDir(d1, d2, d3) == <<"L", d1, d2, d3, "-Hebrew ASSIMIL">>

\* the files a course directory may hold
CourseFileUniverse ==
    { Mp3File(up, dir, stem) :
        up \in { <<>>, <<"CD2", "/">> },
        dir \in { LessonDir("0", "0", "3"), LessonDir("0", "0", "4"),
                  LessonDir("0", "0", "3") \o <<" copy">>,
                  <<"L", "0", "3", "-Hebrew ASSIMIL">> },
        stem \in { <<"S00", "-", "TITLE">>, <<"S00">>, T00_TRANSLATE, <<"N3">> } }

\* the orders in which rglob may list up to n distinct files
FileListings(n) ==
    { fs \in UNION { [1..k -> CourseFileUniverse] : k \in 0..n } :
        \A i, j \in 1..Len(fs) : i # j => fs[i] # fs[j] }

MapIdle ==
    /\ course_files = <<>>
    /\ media_mapping = <<>>
    /\ map_done = FALSE

CreateMediaMapping ==
    /\ ~map_done
    /\ media_mapping' = create_media_mapping_file(course_files)
    /\ map_done' = TRUE
    /\ UNCHANGED course_files
    /\ UNCHANGED NotMap

(***************************************************************************)
(* Audio metadata (v3/src/audio.py; v2/src/audio.py is the same code)      *)
(***************************************************************************)
RECURSIVE LastIndexOf(_, _)
LastIndexOf(s, tok) == IF s = <<>> THEN 0
                       ELSE IF s[Len(s)] = tok THEN Len(s)
                       ELSE LastIndexOf(SubSeq(s, 1, Len(s) - 1), tok)

RECURSIVE LStripTok(_, _)
LStripTok(s, tok) == IF s # <<>> /\ Head(s) = tok THEN LStripTok(Tail(s), tok) ELSE s
RECURSIVE RStripTok(_, _)
RStripTok(s, tok) == IF s # <<>> /\ s[Len(s)] = tok
                     THEN RStripTok(SubSeq(s, 1, Len(s) - 1), tok) ELSE s

NoMetadata ==
    [ok |-> FALSE, id |-> <<>>, hebrew |-> <<>>, english |-> "", sound |-> <<>>,
     tags |-> <<>>, lesson |-> <<>>, lesson_num |-> <<>>, section_id |-> <<>>,
     new_filename |-> <<>>]

\* lesson[1:]: the label with only its 'L' removed
lesson_num_of_DropL(lesson) ==
    IF lesson # <<>> /\ lesson[1] = "L" THEN SubSeq(lesson, 2, Len(lesson)) ELSE lesson

\* lesson_num = lesson[2:] if lesson.startswith('L') else lesson
lesson_num_of(lesson) ==
    IF lesson # <<>> /\ lesson[1] = "L" THEN SubSeq(lesson, 3, Len(lesson)) ELSE lesson

\* extract_mp3_metadata, from the title and album tags it reads ("*" is the
\* decorative mark U+066D, " " a space)
extract_mp3_metadata(title, album) ==
    IF title = <<>> \/ album = <<>> THEN NoMetadata
    ELSE LET lesson == IF " - " \in Range(album)
                       THEN SubSeq(album, LastIndexOf(album, " - ") + 1, Len(album))
                       ELSE album
             lesson_num == lesson_num_of(lesson)
         IN  IF "-" \notin Range(title) THEN NoMetadata
             ELSE LET cut == IndexOf(title, "-")
                      section_id == SubSeq(title, 1, cut - 1)
                      hebrew_text == RStripTok(RStripTok(LStripTok(
                                        SubSeq(title, cut + 1, Len(title)), " "), " "), "*")
                      unique_id == lesson \o <<".">> \o section_id
                      lesson_tag == <<"assimil-">> \o lesson_num
                      new_filename == unique_id \o <<".mp3">>
                  IN  [ok |-> TRUE, id |-> unique_id, hebrew |-> hebrew_text,
                       english |-> "NA",
                       sound |-> <<"[sound:">> \o new_filename \o <<"]">>,
                       tags |-> <<"assimil", " ">> \o lesson_tag,
                       lesson |-> lesson, lesson_num |-> lesson_num,
                       section_id |-> section_id, new_filename |-> new_filename]

LessonLabels == { <<"L", "0", "0", "7">>, <<"L", "0", "2", "0">>, <<"L", "1", "0", "7">> }

\* album tags: the bare label, "<course> - <label>", a course name that itself holds
\* the separator, a label glued to the course name, and a missing tag
Albums ==
    { pre \o lab : pre \in { <<>>, <<"Assimil Hebrew", " - ">>,
                             <<"Assimil", " - ", "Hebrew", " - ">>, <<"Hebrew", " ">> },
                   lab \in LessonLabels }
    \cup { <<>> }

\* title tags: "<section>-<hebrew>", a title without hyphen, and a missing tag
Titles ==
    { sec \o <<"-">> \o heb : sec \in { <<"S02">>, <<"T01">> },
                              heb \in { <<"shalom olam", "*">>, <<" ", "boker", "-", "tov">> } }
    \cup { <<"S02">>, <<>> }

MetaIdle ==
    /\ md_album = <<>>
    /\ md_title = <<>>
    /\ md_out = NoMetadata
    /\ md_done = FALSE

ExtractMetadata ==
    /\ ~md_done
    /\ md_out' = extract_mp3_metadata(md_title, md_album)
    /\ md_done' = TRUE
    /\ UNCHANGED <<md_album, md_title>>
    /\ UNCHANGED NotMeta

(***************************************************************************)
(* Incremental audio extraction (v3/src/audio.py)                          *)
(***************************************************************************)
MaxRows == 2         \* at most this many rows in data/assimil.csv

\* load_existing_translations that takes every row's id
load_existing_translations_AllRows(rows) == {rows[i].id : i \in 1..Len(rows)}

\* load_existing_translations: if row.get('english') and row['english'] != 'NA'
load_existing_translations(rows) ==
    {rows[i].id : i \in {j \in 1..Len(rows) : rows[j].english # "" /\ rows[j].english # "NA"}}

RECURSIVE FilterNew(_, _, _, _)
\* for lesson_dir, mp3_file in all_files: ...
FilterNew(files, existing_ids, new_lessons, skipped_count) ==
    IF files = <<>> THEN [new |-> new_lessons, skipped |-> skipped_count]
    ELSE LET metadata == extract_mp3_metadata(Head(files).title, Head(files).album) IN
         IF metadata.ok
         THEN IF metadata.id \in existing_ids
              THEN FilterNew(Tail(files), existing_ids, new_lessons, skipped_count + 1)
              ELSE FilterNew(Tail(files), existing_ids, Append(new_lessons, metadata),
                             skipped_count)
         ELSE FilterNew(Tail(files), existing_ids, new_lessons, skipped_count)

extract_audio_incremental(rows, all_files) ==
    FilterNew(all_files, load_existing_translations(rows), <<>>, 0)

\* the files of a small course, in scan order; the last has no usable title
ScannedUniverse ==
    << [album |-> <<"Assimil Hebrew", " - ", "L", "0", "0", "7">>, title |-> <<"S02", "-", "shalom olam", "*">>],
       [album |-> <<"Assimil Hebrew", " - ", "L", "0", "0", "7">>, title |-> <<"T01", "-", "shalom olam", "*">>],
       [album |-> <<"Assimil Hebrew", " - ", "L", "0", "2", "0">>, title |-> <<"S02", "-", "shalom olam", "*">>],
       [album |-> <<"Assimil Hebrew", " - ", "L", "0", "2", "0">>, title |-> <<"S02">>] >>

ScanResults == { SeqFilter(ScannedUniverse, keep) : keep \in SUBSET Range(ScannedUniverse) }

SheetRows ==
    { [id |-> lab \o <<".">> \o sec, english |-> en] :
        lab \in { <<"L", "0", "0", "7">>, <<"L", "0", "2", "0">> },
        sec \in { <<"S02">>, <<"T01">> },
        en \in { "", "NA", "hello" } }

IncIdle ==
    /\ inc_rows = <<>>
    /\ inc_files = <<>>
    /\ inc_new = <<>>
    /\ inc_skipped = 0
    /\ inc_done = FALSE

ExtractAudioIncremental ==
    /\ ~inc_done
    /\ LET r == extract_audio_incremental(inc_rows, inc_files) IN
         /\ inc_new' = r.new
         /\ inc_skipped' = r.skipped
    /\ inc_done' = TRUE
    /\ UNCHANGED <<inc_rows, inc_files>>
    /\ UNCHANGED NotInc

(***************************************************************************)
(* Tag utilities (v3/src/tags.py); tags are sequences of characters        *)
(***************************************************************************)
MaxTagLesson == 101      \* lesson numbers 0..MaxTagLesson

UpperCase == <<"A", "B", "C", "D", "E", "F", "G", "H", "I", "J", "K", "L", "M",
               "N", "O", "P", "Q", "R", "S", "T", "U", "V", "W", "X", "Y", "Z">>
LowerCase == <<"a", "b", "c", "d", "e", "f", "g", "h", "i", "j", "k", "l", "m",
               "n", "o", "p", "q", "r", "s", "t", "u", "v", "w", "x", "y", "z">>
LowerChar(c) == IF c \in Range(UpperCase)
                THEN LowerCase[CHOOSE i \in 1..26 : UpperCase[i] = c] ELSE c

\* deck_name.lower()
generate_deck_tag(deck_name) == [i \in 1..Len(deck_name) |-> LowerChar(deck_name[i])]

\* the lesson tag without the zero padding
generate_lesson_tag_Unpadded(deck_name, lesson_num) ==
    generate_deck_tag(deck_name) \o <<":", ":", "L">> \o FormatInt(lesson_num)

\* f"{deck_tag}::L{lesson_num:02d}"
generate_lesson_tag(deck_name, lesson_num) ==
    generate_deck_tag(deck_name) \o <<":", ":", "L">> \o ZeroPad(FormatInt(lesson_num), 2)

generate_lesson_tags(deck_name, lesson_num) ==
    << generate_deck_tag(deck_name), generate_lesson_tag(deck_name, lesson_num) >>

Absent == [found |-> FALSE, lesson |-> 0]

\* re.match(rf"^{re.escape(deck_tag)}::L(\d+)$", tag)
LessonTagMatch(deck_tag, tag) ==
    LET pre == deck_tag \o <<":", ":", "L">> IN
    /\ StartsWith(tag, pre)
    /\ Len(tag) > Len(pre)
    /\ \A i \in (Len(pre) + 1)..Len(tag) : tag[i] \in DigitChars

RECURSIVE ParseTags(_, _)
\* for tag in tags: if match: return int(match.group(1))
ParseTags(tags, deck_tag) ==
    IF tags = <<>> THEN Absent
    ELSE IF LessonTagMatch(deck_tag, Head(tags))
         THEN [found |-> TRUE,
               lesson |-> ParseInt(SubSeq(Head(tags), Len(deck_tag) + 4, Len(Head(tags))))]
         ELSE ParseTags(Tail(tags), deck_tag)

parse_lesson_from_tags(tags, deck_name) == ParseTags(tags, generate_deck_tag(deck_name))

Courses == { <<"a", "s", "s", "i", "m", "i", "l">>, <<"A", "s", "s", "i", "m", "i", "l">>,
             <<"H", "E">> }

\* tags that are not lesson tags of any of the courses: another word, a lesson tag
\* without digits, one with a trailing letter, one with a lower-case l, one of
\* another prefix, and a bare deck tag
OtherTags ==
    { <<"o", "t", "h", "e", "r">>,
      <<"a", "s", "s", "i", "m", "i", "l", ":", ":", "L">>,
      <<"a", "s", "s", "i", "m", "i", "l", ":", ":", "L", "0", "3", "x">>,
      <<"a", "s", "s", "i", "m", "i", "l", ":", ":", "l", "0", "3">>,
      <<"x", "a", "s", "s", "i", "m", "i", "l", ":", ":", "L", "0", "3">>,
      <<"h", "e">> }

TagIdle ==
    /\ tg_course = <<>>
    /\ tg_lesson = 0
    /\ tg_list = <<>>
    /\ tg_generated = <<>>
    /\ tg_parsed = Absent
    /\ tg_pc = "idle"

\* generate the tags of a lesson, put unrelated tags around them, parse them back
GenerateAndParse ==
    /\ tg_pc = "start"
    /\ \E before \in {<<>>} \cup {<<t>> : t \in OtherTags},
          after \in {<<>>} \cup {<<t>> : t \in OtherTags} :
         LET tags == generate_lesson_tags(tg_course, tg_lesson) IN
         /\ tg_generated' = tags
         /\ tg_list' = before \o tags \o after
         /\ tg_parsed' = parse_lesson_from_tags(before \o tags \o after, tg_course)
    /\ tg_pc' = "roundtrip"
    /\ UNCHANGED <<tg_course, tg_lesson>>
    /\ UNCHANGED NotTag

\* parse a list that holds no lesson tag of the course
ParseOther ==
    /\ tg_pc = "start"
    /\ \E t1 \in OtherTags, t2 \in OtherTags, n \in 0..2 :
         LET tags == SubSeq(<<t1, t2>>, 1, n) IN
         /\ tg_list' = tags
         /\ tg_parsed' = parse_lesson_from_tags(tags, tg_course)
    /\ tg_pc' = "other"
    /\ UNCHANGED <<tg_course, tg_lesson, tg_generated>>
    /\ UNCHANGED NotTag

(***************************************************************************)
(* Matcher (v3/src/anki_matcher.py)                                        *)
(***************************************************************************)
MaxDeck == 3            \* at most this many cards in the target deck
MaxThreshold == 2       \* similarity_threshold in 0..MaxThreshold
MaxCandidates == 3      \* max_candidates in 1..MaxCandidates

HEB_ALEF == 1488        \* 'א'
HEB_TAV == 1514         \* 'ת'

Min3(a, b, c) == IF a <= b /\ a <= c THEN a ELSE IF b <= c THEN b ELSE c

RECURSIVE LevNextRow(_, _, _, _)
\* one row of the edit-distance table: cur holds its first Len(cur) entries
LevNextRow(prev, cur, ca, b) ==
    IF Len(cur) = Len(b) + 1 THEN cur
    ELSE LET j == Len(cur)
             cost == IF b[j] = ca THEN 0 ELSE 1
         IN  LevNextRow(prev,
                        Append(cur, Min3(prev[j + 1] + 1, cur[j] + 1, prev[j] + cost)),
                        ca, b)

RECURSIVE LevRows(_, _, _)
LevRows(prev, a, b) ==
    IF a = <<>> THEN prev
    ELSE LevRows(LevNextRow(prev, <<prev[1] + 1>>, Head(a), b), Tail(a), b)

\* Levenshtein.distance: insertions, deletions and substitutions, each of cost 1
levenshtein_distance(a, b) == LevRows([j \in 1..(Len(b) + 1) |-> j - 1], a, b)[Len(b) + 1]

RECURSIVE CollapseSpaces(_)
\* ' '.join(clean.split()) on a text without leading or trailing space
CollapseSpaces(s) ==
    IF Len(s) < 2 THEN s
    ELSE IF s[1] = SPACE /\ s[2] = SPACE THEN CollapseSpaces(Tail(s))
    ELSE <<s[1]>> \o CollapseSpaces(Tail(s))

\* _clean_field_text, on fields that hold no HTML tag
clean_field_text(text) == CollapseSpaces(Strip(text))

AnkiCard(card_id, hebrew, normalized_hebrew) ==
    [card_id |-> card_id, hebrew |-> hebrew, normalized_hebrew |-> normalized_hebrew]

WordMatch(anki_card, similarity_score, match_type) ==
    [anki_card |-> anki_card, similarity_score |-> similarity_score,
     match_type |-> match_type]

RECURSIVE ProcessCards(_, _, _)
\* for card_info in all_cards: ... builds self.cards and self.hebrew_lookup
ProcessCards(all_cards, cs, lookup) ==
    IF all_cards = <<>> THEN [cards |-> cs, hebrew_lookup |-> lookup]
    ELSE LET card_info == Head(all_cards)
             hebrew_field == card_info.Hebrew
             hebrew_clean == clean_field_text(hebrew_field)
             normalized == normalize_hebrew_word(hebrew_clean)
             anki_card == AnkiCard(card_info.cardId, hebrew_clean, normalized)
         IN  IF hebrew_field = <<>>
                \/ ~\E i \in 1..Len(hebrew_field) :
                       HEB_ALEF <= hebrew_field[i] /\ hebrew_field[i] <= HEB_TAV
             THEN ProcessCards(Tail(all_cards), cs, lookup)
             ELSE IF normalized = <<>>
             THEN ProcessCards(Tail(all_cards), cs, lookup)
             ELSE ProcessCards(Tail(all_cards), Append(cs, anki_card),
                      DictSet(lookup, normalized,
                              Append(IF normalized \in DictKeys(lookup)
                                     THEN DictVal(lookup, normalized) ELSE <<>>,
                                     anki_card)))

\* _load_from_anki_connect; findOk, infoOk: whether the findCards and the cardsInfo
\* request got an answer
load_from_anki_connect(deck, findOk, infoOk, old_cards, old_lookup) ==
    IF ~findOk \/ deck = <<>>
    THEN [ret |-> FALSE, cards |-> old_cards, hebrew_lookup |-> old_lookup]
    ELSE LET r == ProcessCards(IF infoOk THEN deck ELSE <<>>, <<>>, <<>>) IN
         [ret |-> TRUE, cards |-> r.cards, hebrew_lookup |-> r.hebrew_lookup]

RECURSIVE InsertByDistance(_, _)
InsertByDistance(sorted, x) ==
    IF sorted = <<>> THEN <<x>>
    ELSE IF Head(sorted).distance <= x.distance
         THEN <<Head(sorted)>> \o InsertByDistance(Tail(sorted), x)
         ELSE <<x>> \o sorted

RECURSIVE SortByDistance(_, _)
\* candidates.sort(key=lambda x: x[1]); list.sort is stable
SortByDistance(todo, sorted) ==
    IF todo = <<>> THEN sorted
    ELSE SortByDistance(Tail(todo), InsertByDistance(sorted, Head(todo)))

RECURSIVE Candidates(_, _, _)
\* for card in self.cards: if distance <= self.similarity_threshold: append
Candidates(cs, normalized_word, threshold) ==
    IF cs = <<>> THEN <<>>
    ELSE LET distance == levenshtein_distance(normalized_word, Head(cs).normalized_hebrew) IN
         (IF distance <= threshold
          THEN << [card |-> Head(cs), distance |-> distance] >> ELSE <<>>)
         \o Candidates(Tail(cs), normalized_word, threshold)

\* _fuzzy_match that keeps every card, whatever its distance
fuzzy_match_NoThreshold(cs, normalized_word, max_results, threshold) ==
    LET sorted == SortByDistance(Candidates(cs, normalized_word, 1000), <<>>) IN
    SubSeq(sorted, 1, IF Len(sorted) < max_results THEN Len(sorted) ELSE max_results)

\* _fuzzy_match
fuzzy_match(cs, normalized_word, max_results, threshold) ==
    LET sorted == SortByDistance(Candidates(cs, normalized_word, threshold), <<>>) IN
    SubSeq(sorted, 1, IF Len(sorted) < max_results THEN Len(sorted) ELSE max_results)

RECURSIVE LexLeq(_, _)
\* a <= b as Python compares strings: by code point, a prefix first
LexLeq(a, b) ==
    IF a = <<>> THEN TRUE
    ELSE IF b = <<>> THEN FALSE
    ELSE IF Head(a) # Head(b) THEN Head(a) < Head(b)
    ELSE LexLeq(Tail(a), Tail(b))

\* the key (anki_card.hebrew) alone
MatchKeyLeq_HebrewOnly(m1, m2) == LexLeq(m1.anki_card.hebrew, m2.anki_card.hebrew)

\* key (similarity_score, anki_card.hebrew) of m1 <= that of m2
MatchKeyLeq(m1, m2) ==
    \/ m1.similarity_score < m2.similarity_score
    \/ /\ m1.similarity_score = m2.similarity_score
       /\ LexLeq(m1.anki_card.hebrew, m2.anki_card.hebrew)

RECURSIVE InsertMatch(_, _)
InsertMatch(sorted, m) ==
    IF sorted = <<>> THEN <<m>>
    ELSE IF MatchKeyLeq(Head(sorted), m)
         THEN <<Head(sorted)>> \o InsertMatch(Tail(sorted), m)
         ELSE <<m>> \o sorted

RECURSIVE SortMatches(_, _)
\* matches.sort(key=lambda m: (m.similarity_score, m.anki_card.hebrew))
SortMatches(todo, sorted) ==
    IF todo = <<>> THEN sorted
    ELSE SortMatches(Tail(todo), InsertMatch(sorted, Head(todo)))

RECURSIVE AddFuzzy(_, _)
\* for card, distance in fuzzy_matches: if not any(same card_id): append
AddFuzzy(matches, fuzzy_matches) ==
    IF fuzzy_matches = <<>> THEN matches
    ELSE LET f == Head(fuzzy_matches) IN
         AddFuzzy(IF \E i \in 1..Len(matches) :
                        matches[i].anki_card.card_id = f.card.card_id
                  THEN matches
                  ELSE Append(matches, WordMatch(f.card, f.distance, "fuzzy")),
                  Tail(fuzzy_matches))

find_matches(cs, lookup, threshold, lesson_word, max_candidates) ==
    LET normalized_word == normalize_hebrew_word(lesson_word)
        exact == IF normalized_word \in DictKeys(lookup)
                 THEN DictVal(lookup, normalized_word) ELSE <<>>
        phase1 == [i \in 1..Len(exact) |-> WordMatch(exact[i], 0, "exact")]
        phase2 == IF Len(phase1) < max_candidates
                  THEN AddFuzzy(phase1, fuzzy_match(cs, normalized_word,
                                                    max_candidates - Len(phase1), threshold))
                  ELSE phase1
        sorted == SortMatches(phase2, <<>>)
    IN  SubSeq(sorted, 1, IF Len(sorted) < max_candidates THEN Len(sorted)
                          ELSE max_candidates)

\* words: shalom with and without points, shalem, balum, shelo, boker, a Latin word
Shalem == <<1513, 1500, 1501>>
Balum == <<1489, 1500, 1493, 1501>>
Shelo == <<1513, 1500, 1493>>
Latin == <<97, 98>>

\* the cards Anki may hold: cardId and Hebrew field
CardInfoUniverse ==
    { [cardId |-> 101, Hebrew |-> Shalom],
      [cardId |-> 102, Hebrew |-> ShalomPointed],
      [cardId |-> 103, Hebrew |-> Shalem],
      [cardId |-> 104, Hebrew |-> Balum],
      [cardId |-> 105, Hebrew |-> Boker],
      [cardId |-> 106, Hebrew |-> Latin] }

\* decks: up to n distinct cards, in any order
Decks(n) ==
    { d \in UNION { [1..k -> CardInfoUniverse] : k \in 0..n } :
        \A i, j \in 1..Len(d) : i # j => d[i] # d[j] }

LessonWords == { ShalomPointed, Shelo, Boker }

MatchIdle ==
    /\ mt_deck = <<>>
    /\ cards = <<>>
    /\ hebrew_lookup = <<>>
    /\ similarity_threshold = 0
    /\ mt_loaded = FALSE
    /\ mt_word = <<>>
    /\ mt_max = 0
    /\ mt_result = <<>>
    /\ mt_pc = "idle"

\* load_deck_cards, reading Anki directly
LoadDeckCards ==
    /\ mt_pc = "new"
    /\ \E findOk \in BOOLEAN, infoOk \in BOOLEAN :
         LET r == load_from_anki_connect(mt_deck, findOk, infoOk, cards, hebrew_lookup) IN
         /\ cards' = r.cards
         /\ hebrew_lookup' = r.hebrew_lookup
         /\ mt_loaded' = r.ret
    /\ mt_pc' = "loaded"
    /\ UNCHANGED <<mt_deck, similarity_threshold, mt_word, mt_max, mt_result>>
    /\ UNCHANGED NotMatch

FindMatches ==
    /\ mt_pc \in {"loaded", "found"}
    /\ \E word \in LessonWords, max_candidates \in 1..MaxCandidates :
         /\ mt_word' = word
         /\ mt_max' = max_candidates
         /\ mt_result' = find_matches(cards, hebrew_lookup, similarity_threshold,
                                      word, max_candidates)
    /\ mt_pc' = "found"
    /\ UNCHANGED <<mt_deck, cards, hebrew_lookup, similarity_threshold, mt_loaded>>
    /\ UNCHANGED NotMatch

(***************************************************************************)
(* Deck and media sync (v3/src/deck_sync.py, v3/src/anki_api.py)           *)
(***************************************************************************)
\* a row of data/assimil.csv with a translation
Translation(id, hebrew, english, sound) ==
    [id |-> id, hebrew |-> hebrew, english |-> english, sound |-> sound]

\* re.search(r'\[sound:([^\]]+)\]', field) on a field with at most one "[sound:"
sound_search(field) ==
    LET i == IndexOf(field, "[sound:")
        rest == SubSeq(field, i + 1, Len(field))
        j == IndexOf(rest, "]")
    IN  IF i = 0 \/ j < 2 THEN [found |-> FALSE, filename |-> <<>>]
        ELSE [found |-> TRUE, filename |-> SubSeq(rest, 1, j - 1)]

RECURSIVE ExistingCards(_, _)
\* for note in notes_info: existing_cards[media_filename] = note_id
ExistingCards(notes_info, existing_cards) ==
    IF notes_info = <<>> THEN existing_cards
    ELSE LET note == Head(notes_info)
             sound_match == sound_search(note.Front)
         IN  ExistingCards(Tail(notes_info),
                 IF sound_match.found
                 THEN DictSet(existing_cards, sound_match.filename, note.noteId)
                 ELSE existing_cards)

\* get_existing_cards_by_media; findOk, infoOk: whether findNotes and notesInfo
\* got an answer
get_existing_cards_by_media(notes, findOk, infoOk) ==
    IF ~findOk \/ notes = <<>> THEN <<>>
    ELSE IF ~infoOk THEN <<>>
    ELSE ExistingCards(notes, <<>>)

\* the tokens of a record id in character order ('.' < digits < letters)
TokenOrder == <<".", "0", "1", "2", "3", "4", "5", "6", "7", "8", "9",
                "L", "S01", "S02", "T01">>
TokenRank(tok) == CHOOSE r \in 1..Len(TokenOrder) : TokenOrder[r] = tok
IdLeq(a, b) == LexLeq([i \in 1..Len(a) |-> TokenRank(a[i])],
                      [i \in 1..Len(b) |-> TokenRank(b[i])])

RECURSIVE InsertById(_, _)
InsertById(sorted, t) ==
    IF sorted = <<>> THEN <<t>>
    ELSE IF IdLeq(Head(sorted).id, t.id)
         THEN <<Head(sorted)>> \o InsertById(Tail(sorted), t)
         ELSE <<t>> \o sorted

RECURSIVE SortById(_, _)
\* missing_translations.sort(key=lambda x: x['id'])
SortById(todo, sorted) ==
    IF todo = <<>> THEN sorted
    ELSE SortById(Tail(todo), InsertById(sorted, Head(todo)))

RECURSIVE MissingTranslations(_, _)
\* for translation in translations: ... missing_translations.append(translation)
MissingTranslations(translations, existing_media_files) ==
    IF translations = <<>> THEN <<>>
    ELSE LET translation == Head(translations)
             sound_match == sound_search(translation.sound)
         IN  (IF sound_match.found
              THEN IF sound_match.filename \notin existing_media_files
                   THEN <<translation>> ELSE <<>>
              ELSE <<translation>>)       \* no sound field, treat as missing
             \o MissingTranslations(Tail(translations), existing_media_files)

\* int(lesson_id.split('.')[0][1:])
lesson_num_from_id(lesson_id) ==
    ParseInt(SubSeq(lesson_id, 2, IndexOf(lesson_id, ".") - 1))

Assimil == <<"a", "s", "s", "i", "m", "i", "l">>

RECURSIVE CreateMissing(_, _, _, _, _)
\* for translation in missing_translations: create_note(...); addFail holds the
\* ids whose addNote request is refused
CreateMissing(missing, notes, created_count, calls, addFail) ==
    IF missing = <<>>
    THEN [notes |-> notes, created |-> created_count, calls |-> calls,
          added |-> <<>>, actions |-> {}]
    ELSE LET translation == Head(missing)
             note == [noteId |-> Len(notes) + 1,
                      Front |-> translation.hebrew \o <<"<br>">> \o translation.sound,
                      Back |-> translation.english,
                      tags |-> generate_lesson_tags(Assimil,
                                                    lesson_num_from_id(translation.id))]
         IN  IF translation.id \in addFail
             THEN CreateMissing(Tail(missing), notes, created_count, calls + 1, addFail)
             ELSE CreateMissing(Tail(missing), Append(notes, note), created_count + 1,
                                calls + 1, addFail)

sync_phrase_cards(translations, notes, findOk, infoOk, addFail) ==
    IF translations = <<>>
    THEN [notes |-> notes, created |-> 0, calls |-> 0, added |-> <<>>, actions |-> {}]
    ELSE LET existing_cards == get_existing_cards_by_media(notes, findOk, infoOk)
             existing_media_files == DictKeys(existing_cards)
             missing_translations ==
                 SortById(MissingTranslations(translations, existing_media_files), <<>>)
         IN  [CreateMissing(missing_translations, notes, 0, 0, addFail) EXCEPT
                 !.added = missing_translations,
                 !.actions = {"findNotes"}
                     \cup (IF findOk /\ notes # <<>> THEN {"notesInfo"} ELSE {})
                     \cup (IF missing_translations # <<>> THEN {"addNote"} ELSE {})]

\* the course directory of the sync runs: two lessons and an introduction track
SyncCourseFiles ==
    << Mp3File(<<>>, LessonDir("0", "0", "2"), <<"S01", "-", "TITLE">>),
       Mp3File(<<>>, LessonDir("0", "0", "1"), <<"S01", "-", "TITLE">>),
       Mp3File(<<>>, LessonDir("0", "0", "1"), T00_TRANSLATE) >>

\* load_media_mapping: the mapping file is created when absent; every file of
\* the mapping exists in the course directory
load_media_mapping(mapping_file) ==
    IF mapping_file.exists THEN mapping_file.mapping
    ELSE create_media_mapping_file(SyncCourseFiles)

\* needed_files: the names in the sound fields
needed_files_of(translations) ==
    { sound_search(translations[i].sound).filename :
        i \in { k \in 1..Len(translations) : sound_search(translations[k].sound).found } }

\* get_existing_assimil_media: getMediaFilesNames with pattern "assimil-*"
get_existing_assimil_media(media, getOk) ==
    IF getOk THEN { f \in media : StartsWith(f, <<"assimil-">>) } ELSE {}

\* sync_media_files; storeFail holds the names whose storeMediaFile request is
\* refused.  The uploads are independent of each other, so the order
\* sorted(missing_files) does not show in the result.
sync_media_files(translations, media, mapping_file, getOk, storeFail) ==
    LET media_lookup == load_media_mapping(mapping_file)
        needed_files == needed_files_of(translations)
        existing_files == get_existing_assimil_media(media, getOk)
        missing_files == needed_files \ existing_files
        found == { f \in missing_files : f \in DictKeys(media_lookup) }
        stored == found \ storeFail
    IN  [media |-> media \cup stored,
         mapping_file |-> [exists |-> TRUE, mapping |-> media_lookup],
         uploaded |-> Cardinality(stored),
         skipped |-> Cardinality(needed_files) - Cardinality(missing_files),
         failed |-> Cardinality(missing_files \ found) + Cardinality(found \cap storeFail),
         calls |-> Cardinality(found),
         sent |-> found]

SoundField(name) == <<"[sound:">> \o name \o <<"]">>

\* the completed rows, in spreadsheet order: two with a prefixed sound file of
\* the course, one with the unprefixed name, one without sound tag, one whose
\* file is not in the course directory
TranslationUniverse ==
    << Translation(<<"L", "0", "0", "2", ".", "S01">>, <<"boker tov">>, "good morning",
                   SoundField(<<"assimil-", "L", "0", "0", "2", ".", "S01", ".mp3">>)),
       Translation(<<"L", "0", "0", "1", ".", "S01">>, <<"shalom">>, "hello",
                   SoundField(<<"assimil-", "L", "0", "0", "1", ".", "S01", ".mp3">>)),
       Translation(<<"L", "0", "0", "1", ".", "T01">>, <<"toda">>, "thanks",
                   SoundField(<<"L", "0", "0", "1", ".", "T01", ".mp3">>)),
       Translation(<<"L", "0", "1", "0", ".", "S02">>, <<"layla tov">>, "good night", <<>>),
       Translation(<<"L", "0", "0", "9", ".", "S01">>, <<"erev tov">>, "good evening",
                   SoundField(<<"assimil-", "L", "0", "0", "9", ".", "S01", ".mp3">>)) >>

TranslationLists ==
    { SeqFilter(TranslationUniverse, keep) : keep \in SUBSET Range(TranslationUniverse) }

\* at most one request of a kind is refused in one run
FailChoices(S) == {{}} \cup { {x} : x \in S }

NoCounts == [created |-> 0, uploaded |-> 0, skipped |-> 0, failed |-> 0]

SyncIdle ==
    /\ sy_translations = <<>>
    /\ anki_notes = <<>>
    /\ anki_media = {}
    /\ sy_mapping_file = [exists |-> FALSE, mapping |-> <<>>]
    /\ sy_run = 0
    /\ sy_pc = "idle"
    /\ sy_ret = NoCounts
    /\ sy_addNote = [r \in 1..2 |-> 0]
    /\ sy_storeMediaFile = [r \in 1..2 |-> 0]
    /\ sy_failed = [r \in 1..2 |-> [query |-> FALSE, write |-> FALSE]]
    /\ sy_before = <<>>
    /\ sy_added = <<>>
    /\ sy_actions = {}
    /\ sy_media_before = {}
    /\ sy_stored = {}

\* sync_phrases_to_anki, first half: results = sync_phrase_cards(translations, deck_name)
SyncPhraseCards ==
    /\ sy_pc = "cards"
    /\ \E findOk \in BOOLEAN, infoOk \in BOOLEAN,
          addFail \in FailChoices({ sy_translations[i].id : i \in 1..Len(sy_translations) }) :
         LET r == sync_phrase_cards(sy_translations, anki_notes, findOk, infoOk, addFail) IN
         /\ anki_notes' = r.notes
         /\ sy_ret' = [NoCounts EXCEPT !.created = r.created]
         /\ sy_addNote' = [sy_addNote EXCEPT ![sy_run] = r.calls]
         /\ sy_failed' = [sy_failed EXCEPT
                            ![sy_run].query = @ \/ ~findOk \/ ~infoOk,
                            ![sy_run].write = @ \/ r.created < r.calls]
         /\ sy_before' = anki_notes
         /\ sy_added' = r.added
         /\ sy_actions' = sy_actions \cup r.actions
    /\ sy_pc' = "media"
    /\ UNCHANGED <<sy_translations, anki_media, sy_mapping_file, sy_run, sy_storeMediaFile,
                   sy_media_before, sy_stored>>
    /\ UNCHANGED NotSync

\* sync_phrases_to_anki, second half: media_results = sync_media_files(translations, config)
SyncMediaFiles ==
    /\ sy_pc = "media"
    /\ \E getOk \in BOOLEAN, storeFail \in FailChoices(needed_files_of(sy_translations)) :
         LET r == sync_media_files(sy_translations, anki_media, sy_mapping_file,
                                   getOk, storeFail) IN
         /\ anki_media' = r.media
         /\ sy_mapping_file' = r.mapping_file
         /\ sy_ret' = [sy_ret EXCEPT !.uploaded = r.uploaded, !.skipped = r.skipped,
                                     !.failed = r.failed]
         /\ sy_storeMediaFile' = [sy_storeMediaFile EXCEPT ![sy_run] = r.calls]
         /\ sy_failed' = [sy_failed EXCEPT
                            ![sy_run].query = @ \/ ~getOk,
                            ![sy_run].write = @ \/ r.uploaded < r.calls]
         /\ sy_media_before' = anki_media
         /\ sy_stored' = r.sent
    /\ IF sy_run = 1 THEN sy_run' = 2 /\ sy_pc' = "cards"
                     ELSE sy_run' = sy_run /\ sy_pc' = "done"
    /\ UNCHANGED <<sy_translations, anki_notes, sy_addNote, sy_before, sy_added, sy_actions>>
    /\ UNCHANGED NotSync

(***************************************************************************)
(* Deck cache (v3/src/deck_cache.py) and the cached load of the matcher    *)
(***************************************************************************)
MaxClock == 2           \* the clock runs 0..MaxClock hours

AlnumChars == Range(UpperCase) \cup Range(LowerCase) \cup DigitChars

\* "".join(c for c in deck_name if c.isalnum() or c in (' ', '-', '_'))
KeepSafe(deck_name) ==
    SelectSeq(deck_name, LAMBDA c : c \in AlnumChars \/ c \in {" ", "-", "_"})

\* the safe name with its spaces left in place
safe_name_KeepSpaces(deck_name) == RStripTok(KeepSafe(deck_name), " ")

\* safe_name = "".join(...).rstrip(); safe_name = safe_name.replace(' ', '_')
safe_name(deck_name) ==
    LET stripped == RStripTok(KeepSafe(deck_name), " ") IN
    [i \in 1..Len(stripped) |-> IF stripped[i] = " " THEN "_" ELSE stripped[i]]

\* _get_cache_path / _get_metadata_path: the file names under cache_dir
get_cache_path(deck_name) == safe_name(deck_name) \o <<"_cache.pkl">>
get_metadata_path(deck_name) == safe_name(deck_name) \o <<"_meta.json">>

MyDeck == <<"M", "y", " ", "D", "e", "c", "k">>
MyDeckU == <<"M", "y", "_", "D", "e", "c", "k">>
HebDeck == <<"H", "e", "b", ":", "1">>
CacheDecks == {MyDeck, MyDeckU, HebDeck}

CacheFileNames ==
    {get_cache_path(d) : d \in CacheDecks} \cup {get_metadata_path(d) : d \in CacheDecks}

NoCacheFile == [exists |-> FALSE, cards |-> <<>>, cached_at |-> 0, hebrew_cards |-> 0]
PklFile(processed_cards) ==
    [exists |-> TRUE, cards |-> processed_cards, cached_at |-> 0, hebrew_cards |-> 0]
MetaFile(now, n) == [exists |-> TRUE, cards |-> <<>>, cached_at |-> now, hebrew_cards |-> n]

\* what findCards / cardsInfo give for a deck: "My Deck" gains a card when it is
\* edited, "My_Deck" has one card, "Heb:1" does not exist
AnkiDeckCards(deck_name, edited) ==
    IF deck_name = MyDeck
    THEN IF edited THEN << [cardId |-> 101, Hebrew |-> Shalom],
                           [cardId |-> 103, Hebrew |-> Shalem] >>
         ELSE << [cardId |-> 101, Hebrew |-> Shalom] >>
    ELSE IF deck_name = MyDeckU THEN << [cardId |-> 104, Hebrew |-> Balum] >>
    ELSE <<>>

\* max_age_hours: None or a number of hours
NoMaxAge == [given |-> FALSE, hours |-> 0]
MaxAge(h) == [given |-> TRUE, hours |-> h]

is_cache_valid(files, deck_name, max_age_hours, now) ==
    LET cache_path == get_cache_path(deck_name)
        meta_path == get_metadata_path(deck_name)
    IN  IF ~files[cache_path].exists \/ ~files[meta_path].exists THEN FALSE
        ELSE IF ~max_age_hours.given THEN TRUE
        ELSE now - files[meta_path].cached_at < max_age_hours.hours

CacheOutcomes == {"ok", "no_find", "no_info", "pkl_fails", "meta_fails"}

\* cache_deck; outcome: every request and write succeeds, findCards gives
\* nothing, cardsInfo gives nothing, or the open of one of the files raises
cache_deck(files, deck_name, anki_cards, outcome, now) ==
    IF outcome = "no_find" \/ anki_cards = <<>>
    THEN [files |-> files, success |-> FALSE]
    ELSE LET all_cards == IF outcome = "no_info" THEN <<>> ELSE anki_cards
             processed_cards == ProcessCards(all_cards, <<>>, <<>>).cards
             cache_path == get_cache_path(deck_name)
             meta_path == get_metadata_path(deck_name)
         IN  IF outcome = "pkl_fails" THEN [files |-> files, success |-> FALSE]
             ELSE IF outcome = "meta_fails"
             THEN [files |-> [files EXCEPT ![cache_path] = PklFile(processed_cards)],
                   success |-> FALSE]
             ELSE [files |-> [files EXCEPT ![cache_path] = PklFile(processed_cards),
                                          ![meta_path] = MetaFile(now, Len(processed_cards))],
                   success |-> TRUE]

\* load_cached_deck: the pickled list, or None
load_cached_deck(files, deck_name) ==
    LET cache_path == get_cache_path(deck_name) IN
    IF ~files[cache_path].exists THEN [some |-> FALSE, cards |-> <<>>]
    ELSE [some |-> TRUE, cards |-> files[cache_path].cards]

\* get_cached_deck that refreshes a missing cache whatever auto_refresh says
get_cached_deck_AlwaysRefresh(files, deck_name, max_age_hours, auto_refresh, anki_cards, outcome, now) ==
    IF is_cache_valid(files, deck_name, max_age_hours, now)
    THEN [files |-> files, deck |-> load_cached_deck(files, deck_name)]
    ELSE LET result == cache_deck(files, deck_name, anki_cards, outcome, now) IN
         [files |-> result.files,
          deck |-> IF result.success THEN load_cached_deck(result.files, deck_name)
                   ELSE [some |-> FALSE, cards |-> <<>>]]

get_cached_deck(files, deck_name, max_age_hours, auto_refresh, anki_cards, outcome, now) ==
    IF is_cache_valid(files, deck_name, max_age_hours, now)
    THEN [files |-> files, deck |-> load_cached_deck(files, deck_name)]
    ELSE IF auto_refresh
    THEN LET result == cache_deck(files, deck_name, anki_cards, outcome, now) IN
         [files |-> result.files,
          deck |-> IF result.success THEN load_cached_deck(result.files, deck_name)
                   ELSE [some |-> FALSE, cards |-> <<>>]]
    ELSE [files |-> files, deck |-> [some |-> FALSE, cards |-> <<>>]]

\* clear_cache(deck_name): unlink the two files of the deck
clear_cache(files, deck_name) ==
    [files EXCEPT ![get_cache_path(deck_name)] = NoCacheFile,
                  ![get_metadata_path(deck_name)] = NoCacheFile]

\* clear_cache(): unlink every *_cache.pkl and *_meta.json
clear_cache_all(files) == [f \in DOMAIN files |-> NoCacheFile]

\* get_cache_info: the metadata with its age, or None
get_cache_info(files, deck_name, now) ==
    LET meta_path == get_metadata_path(deck_name) IN
    IF ~files[meta_path].exists THEN [some |-> FALSE, age_hours |-> 0, is_stale |-> FALSE]
    ELSE [some |-> TRUE, age_hours |-> now - files[meta_path].cached_at, is_stale |-> FALSE]

\* list_cached_decks: one entry per *_meta.json
list_cached_decks(files, now) ==
    { [file |-> f, age_hours |-> now - files[f].cached_at, is_stale |-> FALSE] :
        f \in { g \in DOMAIN files : files[g].exists /\ EndsWith(g, <<"_meta.json">>) } }

RECURSIVE CardsFromCache(_, _, _)
\* _load_from_cache: for card_data in cached_cards: ...
CardsFromCache(cached_cards, cs, lookup) ==
    IF cached_cards = <<>> THEN [cards |-> cs, hebrew_lookup |-> lookup]
    ELSE LET card_data == Head(cached_cards)
             anki_card == AnkiCard(card_data.card_id, card_data.hebrew,
                                   card_data.normalized_hebrew)
             normalized == card_data.normalized_hebrew
         IN  CardsFromCache(Tail(cached_cards), Append(cs, anki_card),
                 DictSet(lookup, normalized,
                         Append(IF normalized \in DictKeys(lookup)
                                THEN DictVal(lookup, normalized) ELSE <<>>,
                                anki_card)))

\* _load_from_cache: the cached deck, or the fall back to AnkiConnect
load_from_cache(files, deck_name, anki_cards, outcome, now, old_cards, old_lookup) ==
    LET got == get_cached_deck(files, deck_name, NoMaxAge, FALSE, anki_cards, outcome, now)
    IN  IF ~got.deck.some \/ got.deck.cards = <<>>
        THEN [files |-> got.files] @@
             load_from_anki_connect(anki_cards, outcome # "no_find", outcome # "no_info",
                                    old_cards, old_lookup)
        ELSE LET r == CardsFromCache(got.deck.cards, <<>>, <<>>) IN
             [files |-> got.files, ret |-> TRUE, cards |-> r.cards,
              hebrew_lookup |-> r.hebrew_lookup]

CacheOp(name, deck_name, max_age_hours, auto_refresh, ok) ==
    [name |-> name, deck |-> deck_name, max_age |-> max_age_hours,
     auto_refresh |-> auto_refresh, ok |-> ok]

CacheIdle ==
    /\ ca_files = <<>>
    /\ ca_now = 0
    /\ ca_edited = FALSE
    /\ ca_op = CacheOp("idle", <<>>, NoMaxAge, FALSE, FALSE)
    /\ ca_before = <<>>

\* time passes
Tick ==
    /\ ca_now < MaxClock
    /\ ca_now' = ca_now + 1
    /\ UNCHANGED <<ca_files, ca_edited, ca_op, ca_before>>
    /\ UNCHANGED <<matchVars, NotCacheMatch>>

\* the user adds a card to the deck in Anki
EditDeck ==
    /\ ~ca_edited
    /\ ca_edited' = TRUE
    /\ UNCHANGED <<ca_files, ca_now, ca_op, ca_before>>
    /\ UNCHANGED <<matchVars, NotCacheMatch>>

\* cache_deck / refresh_cache
CacheDeck ==
    /\ \E deck_name \in CacheDecks, outcome \in CacheOutcomes :
         LET r == cache_deck(ca_files, deck_name, AnkiDeckCards(deck_name, ca_edited),
                             outcome, ca_now) IN
         /\ ca_files' = r.files
         /\ ca_op' = CacheOp("cache_deck", deck_name, NoMaxAge, FALSE, r.success)
    /\ ca_before' = ca_files
    /\ UNCHANGED <<ca_now, ca_edited>>
    /\ UNCHANGED <<matchVars, NotCacheMatch>>

ClearCache ==
    /\ \/ \E deck_name \in CacheDecks :
            /\ ca_files' = clear_cache(ca_files, deck_name)
            /\ ca_op' = CacheOp("clear_cache", deck_name, NoMaxAge, FALSE, TRUE)
       \/ /\ ca_files' = clear_cache_all(ca_files)
          /\ ca_op' = CacheOp("clear_cache", <<>>, NoMaxAge, FALSE, TRUE)
    /\ ca_before' = ca_files
    /\ UNCHANGED <<ca_now, ca_edited>>
    /\ UNCHANGED <<matchVars, NotCacheMatch>>

IsCacheValid ==
    /\ \E deck_name \in CacheDecks, max_age_hours \in {NoMaxAge, MaxAge(1)} :
         ca_op' = CacheOp("is_cache_valid", deck_name, max_age_hours, FALSE,
                          is_cache_valid(ca_files, deck_name, max_age_hours, ca_now))
    /\ ca_before' = ca_files
    /\ UNCHANGED <<ca_files, ca_now, ca_edited>>
    /\ UNCHANGED <<matchVars, NotCacheMatch>>

GetCachedDeck ==
    /\ \E deck_name \in CacheDecks, max_age_hours \in {NoMaxAge, MaxAge(1)},
          auto_refresh \in BOOLEAN, outcome \in {"ok", "no_find", "meta_fails"} :
         LET r == get_cached_deck(ca_files, deck_name, max_age_hours, auto_refresh,
                                  AnkiDeckCards(deck_name, ca_edited), outcome, ca_now) IN
         /\ ca_files' = r.files
         /\ ca_op' = CacheOp("get_cached_deck", deck_name, max_age_hours, auto_refresh,
                             r.deck.some)
    /\ ca_before' = ca_files
    /\ UNCHANGED <<ca_now, ca_edited>>
    /\ UNCHANGED <<matchVars, NotCacheMatch>>

GetCacheInfo ==
    /\ \E deck_name \in CacheDecks :
         ca_op' = CacheOp("get_cache_info", deck_name, NoMaxAge, FALSE,
                          get_cache_info(ca_files, deck_name, ca_now).some)
    /\ ca_before' = ca_files
    /\ UNCHANGED <<ca_files, ca_now, ca_edited>>
    /\ UNCHANGED <<matchVars, NotCacheMatch>>

ListCachedDecks ==
    /\ ca_op' = CacheOp("list_cached_decks", <<>>, NoMaxAge, FALSE,
                        list_cached_decks(ca_files, ca_now) # {})
    /\ ca_before' = ca_files
    /\ UNCHANGED <<ca_files, ca_now, ca_edited>>
    /\ UNCHANGED <<matchVars, NotCacheMatch>>

\* AnkiMatcher(deck_name, use_cache=True).load_deck_cards()
LoadDeckCardsCached ==
    /\ \E deck_name \in CacheDecks, outcome \in {"ok", "no_find", "no_info"} :
         LET r == load_from_cache(ca_files, deck_name, AnkiDeckCards(deck_name, ca_edited),
                                  outcome, ca_now, <<>>, <<>>) IN
         /\ ca_files' = r.files
         /\ cards' = r.cards
         /\ hebrew_lookup' = r.hebrew_lookup
         /\ mt_loaded' = r.ret
         /\ ca_op' = CacheOp("load_deck_cards", deck_name, NoMaxAge, FALSE, r.ret)
    /\ ca_before' = ca_files
    /\ UNCHANGED <<ca_now, ca_edited>>
    /\ UNCHANGED <<mt_deck, similarity_threshold, mt_word, mt_max, mt_result, mt_pc>>
    /\ UNCHANGED NotCacheMatch

(***************************************************************************)
(* The commands (v3/main.py, v2/main.py)                                   *)
(*                                                                         *)
(* A command ends with an exit status: 1 where the code raises             *)
(* typer.Exit(1), 0 where the function returns.  cm_report holds the       *)
(* failures it printed on the way.                                         *)
(***************************************************************************)
MaxRangeLen == 3        \* the --lessons option has at most this many characters

RECURSIVE SplitOn(_, _)
\* s.split(tok)
SplitOn(s, tok) ==
    IF tok \notin Range(s) THEN <<s>>
    ELSE <<SubSeq(s, 1, IndexOf(s, tok) - 1)>>
         \o SplitOn(SubSeq(s, IndexOf(s, tok) + 1, Len(s)), tok)

\* int(s) raises ValueError unless s is a number
IsIntText(s) == s # <<>> /\ Range(s) \subseteq DigitChars

All == <<"all">>

\* match_words that takes any --lessons text
lesson_range_ok_Lenient(lessons) == TRUE

\* match_words, "Parse lesson range": whether the try block ends without
\* ValueError
lesson_range_ok(lessons) ==
    IF lessons # <<>> /\ lessons # All
    THEN IF "-" \in Range(lessons)
         THEN LET parts == SplitOn(lessons, "-") IN
              Len(parts) = 2 /\ IsIntText(parts[2])     \* start, end = ...; int(end)
         ELSE IsIntText(lessons)
    ELSE TRUE

Done(exit, report) == [exit |-> exit, report |-> report]

\* load_config of either generation: typer.Exit(1) when the file is missing
load_config(settings) ==
    IF settings THEN Done(0, {}) ELSE Done(1, {"config not found"})

\* a command that loads the settings first and then returns normally whatever
\* the bridge answers
AfterConfig(settings, report) ==
    IF load_config(settings).exit # 0 THEN load_config(settings)
    ELSE Done(0, report)

BridgeReport(bridge) == IF bridge THEN {} ELSE {"bridge unavailable"}

\* v3/main.py
V3Commands == {"status", "extract-audio", "sync-phrases", "match-words", "apply-tags",
               "storage-status", "create-extra-template", "import-v1", "cache-deck",
               "cache-status", "clear-cache"}

\* v2/main.py
V2Commands == {"status", "extract-audio", "match-words", "export-anki"}

v3_status(settings, bridge) == AfterConfig(settings, BridgeReport(bridge))

v3_extract_audio(settings) == AfterConfig(settings, {})

v3_sync_phrases(settings) == AfterConfig(settings, {})

v3_match_words(settings, lessons) ==
    IF load_config(settings).exit # 0 THEN load_config(settings)
    ELSE IF ~lesson_range_ok(lessons) THEN Done(1, {"invalid lesson range"})
    ELSE Done(0, {})

v3_apply_tags(settings, csv) ==
    IF load_config(settings).exit # 0 THEN load_config(settings)
    ELSE IF ~csv THEN Done(1, {"file not found"})
    ELSE Done(0, {})

v3_cache_deck(settings) == AfterConfig(settings, {})

\* storage-status, create-extra-template, import-v1, cache-status, clear-cache:
\* no load_config
v3_other == Done(0, {})

\* v2 status: try: config = load_config() / except: print; return
v2_status(settings) ==
    IF load_config(settings).exit # 0
    THEN Done(0, load_config(settings).report \cup {"cannot load config"})
    ELSE Done(0, {})

\* v2 extract-audio, match-words, export-anki
v2_other(settings) == AfterConfig(settings, {})

run_command(gen, cmd, settings, lessons, csv, bridge) ==
    IF gen = 3
    THEN CASE cmd = "status" -> v3_status(settings, bridge)
           [] cmd = "extract-audio" -> v3_extract_audio(settings)
           [] cmd = "sync-phrases" -> v3_sync_phrases(settings)
           [] cmd = "match-words" -> v3_match_words(settings, lessons)
           [] cmd = "apply-tags" -> v3_apply_tags(settings, csv)
           [] cmd = "cache-deck" -> v3_cache_deck(settings)
           [] OTHER -> v3_other
    ELSE CASE cmd = "status" -> v2_status(settings)
           [] OTHER -> v2_other(settings)

RECURSIVE TextsUpTo(_, _)
\* the texts over an alphabet, up to a length
TextsUpTo(alphabet, n) ==
    IF n = 0 THEN {<<>>}
    ELSE LET shorter == TextsUpTo(alphabet, n - 1) IN
         shorter \cup { Append(t, c) : t \in shorter, c \in alphabet }

LessonRanges == TextsUpTo({"1", "5", "-", "x"}, MaxRangeLen) \cup {All}

CmdIdle ==
    /\ cm_gen = 3
    /\ cm_cmd = "status"
    /\ cm_settings = TRUE
    /\ cm_lessons = <<>>
    /\ cm_csv = TRUE
    /\ cm_bridge = TRUE
    /\ cm_exit = 0
    /\ cm_report = {}
    /\ cm_pc = "idle"

RunCommand ==
    /\ cm_pc = "start"
    /\ LET r == run_command(cm_gen, cm_cmd, cm_settings, cm_lessons, cm_csv, cm_bridge) IN
         /\ cm_exit' = r.exit
         /\ cm_report' = r.report
    /\ cm_pc' = "done"
    /\ UNCHANGED <<cm_gen, cm_cmd, cm_settings, cm_lessons, cm_csv, cm_bridge>>
    /\ UNCHANGED NotCmd

(***************************************************************************)
(* Normalising one word (v3/src/tokenizer.py)                              *)
(***************************************************************************)
MaxWordLen == 3         \* the words handed in have at most this many characters

\* shin, vav; qamats; the four ends of the two mark ranges and the code points
\* next to them; three ligatures and the zero width joiner; white space
NormChars == {1513, 1493, 1464,
              TEAMIM_LO - 1, TEAMIM_LO, TEAMIM_HI, NIKUD_LO, NIKUD_HI, NIKUD_HI + 1,
              1520, 1521, 64335, 8205, SPACE, 9}

NormIdle ==
    /\ nz_in = <<>>
    /\ nz_out = <<>>
    /\ nz_pc = "idle"

Normalize ==
    /\ nz_pc = "start"
    /\ nz_out' = normalize_hebrew_word(nz_in)
    /\ nz_pc' = "done"
    /\ UNCHANGED nz_in
    /\ UNCHANGED NotNorm

(***************************************************************************)
(* Cache file names (v3/src/deck_cache.py)                                 *)
(***************************************************************************)
MaxNameLen == 3         \* a deck name has at most this many characters
MaxCalls == 2           \* each path function is called at most this many times

\* letters, a digit, the three characters kept besides, and three that are not
NameChars == {"a", "Z", "7", " ", "-", "_", "/", ":", "."}

NameIdle ==
    /\ nm_deck = <<>>
    /\ nm_cache = <<>>
    /\ nm_meta = <<>>

GetCachePath ==
    /\ Len(nm_cache) < MaxCalls
    /\ nm_cache' = Append(nm_cache, get_cache_path(nm_deck))
    /\ UNCHANGED <<nm_deck, nm_meta>>
    /\ UNCHANGED NotName

GetMetadataPath ==
    /\ Len(nm_meta) < MaxCalls
    /\ nm_meta' = Append(nm_meta, get_metadata_path(nm_deck))
    /\ UNCHANGED <<nm_deck, nm_cache>>
    /\ UNCHANGED NotName

(***************************************************************************)
(* Sequential word extraction (v3/src/word_extraction.py)                  *)
(*                                                                         *)
(* A lesson directory is its name and the Hebrew words that                *)
(* extract_hebrew_words finds in the titles of its audio files, in file    *)
(* order; the phrase of a word stands for its context.                     *)
(***************************************************************************)
MaxLessonDirs == 3      \* a course has at most this many lesson directories

LessonWord(word, normalized, lesson, first_occurrence, context) ==
    [word |-> word, normalized |-> normalized, lesson |-> lesson,
     first_occurrence |-> first_occurrence, context |-> context]

\* re.search(r'L(\d+)', lesson_dir.name) on a name that starts with L<digits>
get_lesson_number(name) ==
    LET digits == SelectSeq(Tail(name), LAMBDA c : c \in DigitChars) IN ParseInt(digits)

RECURSIVE _extract_lesson_words(_, _, _, _)
\* for word in hebrew_words: ...; returns the lesson's words and seen_words
_extract_lesson_words(hebrew_words, lesson_num, seen, context) ==
    IF hebrew_words = <<>> THEN [words |-> <<>>, seen |-> seen]
    ELSE LET word == Head(hebrew_words)
             normalized == normalize_hebrew_word(word)
         IN  IF Len(normalized) < 2        \* skip very short words
             THEN _extract_lesson_words(Tail(hebrew_words), lesson_num, seen, context)
             ELSE LET rest == _extract_lesson_words(Tail(hebrew_words), lesson_num,
                                                    seen \cup {normalized}, context)
                  IN  [words |-> <<LessonWord(word, normalized, lesson_num,
                                              normalized \notin seen, context)>>
                                 \o rest.words,
                       seen |-> rest.seen]

\* sorted(paths) with names in numeric order instead
DirLeq_Numeric(a, b) == get_lesson_number(a) <= get_lesson_number(b)

\* the order of sorted() on the directory paths: by the characters of the name
DirLeq(a, b) == IdLeq(a, b)

RECURSIVE SortDirs(_)
\* sorted([d for d in course_dir.iterdir() if ...])
SortDirs(dirs) ==
    IF dirs = {} THEN <<>>
    ELSE LET first == CHOOSE d \in dirs : \A e \in dirs : DirLeq(d.name, e.name)
         IN  <<first>> \o SortDirs(dirs \ {first})

RECURSIVE ProcessDirs(_, _, _)
\* for lesson_dir in lesson_dirs: process_lesson_directory(lesson_dir)
ProcessDirs(lesson_dirs, seen, words_by_lesson) ==
    IF lesson_dirs = <<>> THEN [seen |-> seen, lesson_words |-> words_by_lesson]
    ELSE LET lesson_dir == Head(lesson_dirs)
             lesson_num == get_lesson_number(lesson_dir.name)
             r == _extract_lesson_words(lesson_dir.words, lesson_num, seen, lesson_dir.words)
         IN  ProcessDirs(Tail(lesson_dirs), r.seen,
                         DictSet(words_by_lesson, lesson_num, r.words))

\* process_lessons_sequential(max_lessons) of a new WordExtractor
process_lessons_sequential(course, max_lessons) ==
    LET sorted == SortDirs(course)
        lesson_dirs == IF max_lessons # 0 /\ max_lessons < Len(sorted)
                       THEN SubSeq(sorted, 1, max_lessons) ELSE sorted
    IN  ProcessDirs(lesson_dirs, {}, <<>>)

\* get_new_words_by_lesson(lesson_num)
get_new_words_by_lesson(words_by_lesson, lesson_num) ==
    IF lesson_num \notin DictKeys(words_by_lesson) THEN <<>>
    ELSE SelectSeq(DictVal(words_by_lesson, lesson_num), LAMBDA w : w.first_occurrence)

Vav == <<1493>>

\* directory names: zero-padded to three digits, and not padded
LessonDirNames == { <<"L", "0", "0", "1">>, <<"L", "0", "0", "2">>, <<"L", "0", "1", "0">>,
                    <<"L", "2">>, <<"L", "1", "0">> }

\* the Hebrew words of a lesson's titles
LessonTexts == { <<Shalom>>, <<ShalomPointed, Boker>>, <<Boker, Vav, Shalom>> }

\* the courses: up to MaxLessonDirs directories, under any of the names
CourseChoices ==
    UNION { [names -> LessonTexts] :
              names \in { s \in SUBSET LessonDirNames : s # {} /\ Cardinality(s) <= MaxLessonDirs } }

CourseDirs(c) == { [name |-> n, words |-> c[n]] : n \in DOMAIN c }

ExtractIdle ==
    /\ wx_course = {}
    /\ wx_max = 0
    /\ seen_words = {}
    /\ lesson_words = <<>>
    /\ wx_pc = "idle"

ProcessLessonsSequential ==
    /\ wx_pc = "start"
    /\ LET r == process_lessons_sequential(wx_course, wx_max) IN
         /\ seen_words' = r.seen
         /\ lesson_words' = r.lesson_words
    /\ wx_pc' = "done"
    /\ UNCHANGED <<wx_course, wx_max>>
    /\ UNCHANGED NotExtract

\* process_lessons_sequential(max_lessons) of a WordExtractor that holds
\* seen_words and lesson_words of earlier calls
process_lessons_sequential_on(course, max_lessons, seen, words_by_lesson) ==
    LET sorted == SortDirs(course)
        lesson_dirs == IF max_lessons # 0 /\ max_lessons < Len(sorted)
                       THEN SubSeq(sorted, 1, max_lessons) ELSE sorted
    IN  ProcessDirs(lesson_dirs, seen, words_by_lesson)

\* a second call of process_lessons_sequential on the same WordExtractor
ProcessLessonsAgain ==
    /\ wx_pc = "done"
    /\ \E max_lessons \in 0..2 :
         LET r == process_lessons_sequential_on(wx_course, max_lessons,
                                                seen_words, lesson_words) IN
         /\ seen_words' = r.seen
         /\ lesson_words' = r.lesson_words
         /\ wx_max' = max_lessons
    /\ wx_pc' = "again"
    /\ UNCHANGED wx_course
    /\ UNCHANGED NotExtract

RECURSIVE AllLessonWords(_)
\* for lesson_words in self.lesson_words.values(): the words of every lesson
AllLessonWords(words_by_lesson) ==
    IF words_by_lesson = <<>> THEN <<>>
    ELSE Head(words_by_lesson).val \o AllLessonWords(Tail(words_by_lesson))

\* get_all_new_words()
get_all_new_words(words_by_lesson) ==
    SelectSeq(AllLessonWords(words_by_lesson), LAMBDA w : w.first_occurrence)

\* get_word_stats()
get_word_stats(seen, words_by_lesson) ==
    [total_words |-> Len(AllLessonWords(words_by_lesson)),
     unique_words |-> Cardinality(seen),
     new_words |-> Len(get_all_new_words(words_by_lesson)),
     lessons_processed |-> Len(words_by_lesson)]

(***************************************************************************)
(* The matching pipeline (v3/src/word_matching.py)                         *)
(***************************************************************************)
MaxRuns == 3            \* process_lessons runs at most this many times

LessonWordMatch(lesson_word, word_match, lesson_tag, should_tag) ==
    [lesson_word |-> lesson_word, word_match |-> word_match,
     lesson_tag |-> lesson_tag, should_tag |-> should_tag]

\* the tags of a card in Anki: card 101 carries the tag of lesson 1
CardTags(card_id) == IF card_id = 101 THEN {generate_lesson_tag(Assimil, 1)} ELSE {}

\* _should_tag_card: lesson_tag not in word_match.anki_card.tags
_should_tag_card(word_match, lesson_tag) ==
    lesson_tag \notin CardTags(word_match.anki_card.card_id)

\* is_word_processed over the dicts as they are at that point of the run
IsWordProcessed(unmatched, lesson, heb_word) ==
    LET key == make_word_key(lesson, heb_word) IN
    \/ key \in DictKeys(approved_matches)
    \/ key \in DictKeys(extra_matches)
    \/ key \in DictKeys(unmatched)

\* process_lessons that hands every new word to the matcher, processed or not
Unprocessed_NoFilter(unmatched, new_words) == new_words

\* unprocessed_words = [word for word in new_words if not is_word_processed(...)]
Unprocessed(unmatched, new_words) ==
    SelectSeq(new_words, LAMBDA w : ~IsWordProcessed(unmatched, w.lesson, w.word))

RECURSIVE MatchWords(_, _, _)
\* for lesson_word in unprocessed_words: find_matches, then either a pending
\* match or add_unmatched_word; st: unmatched dict, the lesson's matches, the
\* words asked for
MatchWords(unprocessed_words, lesson_num, st) ==
    IF unprocessed_words = <<>> THEN st
    ELSE LET lesson_word == Head(unprocessed_words)
             matches == find_matches(cards, hebrew_lookup, similarity_threshold,
                                     lesson_word.word, MaxCandidates)
             lesson_tag == generate_lesson_tag(Assimil, lesson_num)
         IN  MatchWords(Tail(unprocessed_words), lesson_num,
               IF matches # <<>>
               THEN [st EXCEPT
                       !.matches = Append(@, LessonWordMatch(lesson_word, matches[1],
                                       lesson_tag, _should_tag_card(matches[1], lesson_tag))),
                       !.queried = @ \cup {<<lesson_num, lesson_word.word>>}]
               ELSE [st EXCEPT
                       !.unmatched = unmatched_update(@, lesson_num, lesson_word.word,
                                                      lesson_word.context),
                       !.queried = @ \cup {<<lesson_num, lesson_word.word>>},
                       !.saved = TRUE])

RECURSIVE MatchLessons(_, _, _)
\* for lesson_num, lesson_data in lessons_data.items(): ...
MatchLessons(words_by_lesson, i, st) ==
    IF i > Len(words_by_lesson) THEN st
    ELSE LET lesson_num == words_by_lesson[i].key
             new_words == get_new_words_by_lesson(words_by_lesson, lesson_num)
             r == MatchWords(Unprocessed(st.unmatched, new_words), lesson_num,
                             [st EXCEPT !.matches = <<>>])
         IN  MatchLessons(words_by_lesson, i + 1,
                          [r EXCEPT !.matches = <<>>,
                                    !.lesson_matches = DictSet(st.lesson_matches,
                                                               lesson_num, r.matches)])

\* process_lessons(max_lessons)
process_lessons(course, max_lessons, old_matches) ==
    LET x == process_lessons_sequential(course, max_lessons) IN
    MatchLessons(x.lesson_words, 1,
                 [unmatched |-> unmatched_words, matches |-> <<>>,
                  lesson_matches |-> old_matches, queried |-> {}, saved |-> FALSE])

\* the decks of the pipeline runs
PipeDecks == { <<>>,
               << [cardId |-> 101, Hebrew |-> Shalom] >>,
               << [cardId |-> 103, Hebrew |-> Shalem], [cardId |-> 105, Hebrew |-> Boker] >> }

\* the courses of the pipeline runs: one or two lesson directories
PipeCourses == { CourseDirs(c) : c \in { d \in CourseChoices : Cardinality(DOMAIN d) <= 2 } }

\* an approved file that an earlier import wrote: shalom of lesson 1
ApprovedShalom ==
    CsvFile({"lesson", "heb_word", "match_word", "match_word_def", "score", "card_id"},
            << ApprovedRow(StoredMatch(1, Shalom, Shalom, "def", 101, "approved", 0)) >>)

PipeIdle ==
    /\ pl_course = {}
    /\ pl_deck = <<>>
    /\ pl_max = 0
    /\ lesson_matches = <<>>
    /\ pl_runs = 0
    /\ pl_before = {}
    /\ pl_unmatched_before = <<>>
    /\ pl_queried = {}
    /\ pl_pc = "idle"

\* WordMatchingPipeline(config): a new extractor, the matcher with the deck
\* loaded, the persistence manager loaded from the files
NewPipeline ==
    /\ pl_pc = "new"
    /\ pl_runs < MaxRuns
    /\ \E findOk \in BOOLEAN :
         LET r == load_from_anki_connect(pl_deck, findOk, TRUE, <<>>, <<>>) IN
         /\ cards' = r.cards
         /\ hebrew_lookup' = r.hebrew_lookup
         /\ mt_loaded' = r.ret
    /\ approved_matches' = _load_approved_matches
    /\ extra_matches' = _load_extra_matches
    /\ unmatched_words' = _load_unmatched_words
    /\ pl_before' = DictKeys(_load_approved_matches) \cup DictKeys(_load_extra_matches)
                      \cup DictKeys(_load_unmatched_words)
    /\ pl_unmatched_before' = _load_unmatched_words
    /\ lesson_matches' = <<>>
    /\ pl_queried' = {}
    /\ pl_pc' = "built"
    /\ UNCHANGED <<approved_file, extra_file, unmatched_file, pm_ret, pm_calls, pm_base>>
    /\ UNCHANGED <<mt_deck, similarity_threshold, mt_word, mt_max, mt_result, mt_pc>>
    /\ UNCHANGED <<pl_course, pl_deck, pl_max, pl_runs>>
    /\ UNCHANGED NotPipeRun

\* pipeline.process_lessons(max_lessons), as export_word_matches calls it
ProcessLessons ==
    /\ pl_pc = "built"
    /\ LET r == process_lessons(pl_course, pl_max, lesson_matches) IN
         /\ lesson_matches' = r.lesson_matches
         /\ unmatched_words' = r.unmatched
         /\ unmatched_file' = IF r.saved THEN _save_unmatched_words(r.unmatched, TRUE)
                              ELSE unmatched_file
         /\ pl_queried' = r.queried
    /\ pl_runs' = pl_runs + 1
    /\ pl_pc' = "new"
    /\ UNCHANGED <<approved_matches, extra_matches, approved_file, extra_file, pm_ret,
                   pm_calls, pm_base>>
    /\ UNCHANGED matchVars
    /\ UNCHANGED <<pl_course, pl_deck, pl_max, pl_before, pl_unmatched_before>>
    /\ UNCHANGED NotPipeRun

(***************************************************************************)
(* Tag application (v3/src/word_matching.py, csv_export.py, main.py,       *)
(* anki_api.py)                                                            *)
(*                                                                         *)
(* A request to AnkiConnect ends in one of three ways: "ok" (an answer     *)
(* without error field), "error" (an answer with an error field) or        *)
(* "transport" (requests raises).  A Python value that may be None is a    *)
(* record with a none flag.                                                *)
(***************************************************************************)
MaxItems == 2           \* a batch has at most this many items

None == [none |-> TRUE, value |-> <<>>]
Some(v) == [none |-> FALSE, value |-> v]

RequestOutcomes == {"ok", "error", "transport"}

\* anki_request: None on a transport failure and on an error field, else the
\* "result" of the answer
anki_request(outcome, result) ==
    IF outcome = "ok" THEN result ELSE None

\* what AnkiConnect answers on success: addTags has a null result, cardsInfo a
\* list with the card's note
AddTagsResult == None
CardsInfoResult(card_id) == Some(<<[cardId |-> card_id, note |-> card_id + 1000]>>)

\* a Python value in a condition: None and the empty list are false
Truthy(v) == ~v.none /\ v.value # <<>>

\* the counters, and requests: how many requests went to AnkiConnect
NoStats == [cards_to_tag |-> 0, cards_already_tagged |-> 0, tags_applied |-> 0, errors |-> 0,
            requests |-> 0]

RECURSIVE apply_tags_to_anki(_, _, _, _)
\* WordMatchingPipeline.apply_tags_to_anki over the matches of lesson_matches
apply_tags_to_anki(matches, outcomes, dry_run, stats) ==
    IF matches = <<>> THEN stats
    ELSE LET match == Head(matches)
             result == anki_request(Head(outcomes).addTags, AddTagsResult)
         IN  apply_tags_to_anki(Tail(matches), Tail(outcomes), dry_run,
               IF match.should_tag
               THEN IF dry_run THEN [stats EXCEPT !.cards_to_tag = @ + 1]
                    ELSE IF result.none     \* "AnkiConnect returns None on success"
                         THEN [stats EXCEPT !.cards_to_tag = @ + 1, !.tags_applied = @ + 1,
                                            !.requests = @ + 1]
                         ELSE [stats EXCEPT !.cards_to_tag = @ + 1, !.errors = @ + 1,
                                            !.requests = @ + 1]
               ELSE [stats EXCEPT !.cards_already_tagged = @ + 1])

RECURSIVE apply_approved_matches_LookupFirst(_, _, _, _)
\* apply_approved_matches that asks for the card's note before it looks at dry_run
apply_approved_matches_LookupFirst(approved_matches_, outcomes, dry_run, stats) ==
    IF approved_matches_ = <<>> THEN stats
    ELSE LET match == Head(approved_matches_)
             card_info == anki_request(Head(outcomes).cardsInfo, CardsInfoResult(match.card_id))
             result == anki_request(Head(outcomes).addTags, AddTagsResult)
         IN  apply_approved_matches_LookupFirst(Tail(approved_matches_), Tail(outcomes), dry_run,
               IF dry_run THEN [stats EXCEPT !.cards_to_tag = @ + 1, !.requests = @ + 1]
               ELSE IF Truthy(card_info)
                    THEN IF result.none
                         THEN [stats EXCEPT !.cards_to_tag = @ + 1, !.tags_applied = @ + 1,
                                            !.requests = @ + 2]
                         ELSE [stats EXCEPT !.cards_to_tag = @ + 1, !.errors = @ + 1,
                                            !.requests = @ + 2]
                    ELSE [stats EXCEPT !.cards_to_tag = @ + 1, !.errors = @ + 1,
                                       !.requests = @ + 1])

RECURSIVE apply_approved_matches(_, _, _, _)
\* CSVImporter.apply_approved_matches; the grouping by lesson changes the order
\* of the requests, the counters do not depend on it
apply_approved_matches(approved_matches_, outcomes, dry_run, stats) ==
    IF approved_matches_ = <<>> THEN stats
    ELSE LET match == Head(approved_matches_)
             card_info == anki_request(Head(outcomes).cardsInfo, CardsInfoResult(match.card_id))
             result == anki_request(Head(outcomes).addTags, AddTagsResult)
         IN  apply_approved_matches(Tail(approved_matches_), Tail(outcomes), dry_run,
               IF dry_run THEN [stats EXCEPT !.cards_to_tag = @ + 1]
               ELSE IF Truthy(card_info)
                    THEN IF result.none     \* "Success"
                         THEN [stats EXCEPT !.cards_to_tag = @ + 1, !.tags_applied = @ + 1,
                                            !.requests = @ + 2]
                         ELSE [stats EXCEPT !.cards_to_tag = @ + 1, !.errors = @ + 1,
                                            !.requests = @ + 2]
                    ELSE [stats EXCEPT !.cards_to_tag = @ + 1, !.errors = @ + 1,
                                       !.requests = @ + 1])

\* add_tags_to_notes: its own request; False on a transport failure and on an
\* error field
add_tags_to_notes(outcome) == outcome = "ok"

\* add_tags_to_cards([card_id], [tag])
add_tags_to_cards(card_id, outcome) ==
    IF ~Truthy(anki_request(outcome.cardsInfo, CardsInfoResult(card_id))) THEN FALSE
    ELSE add_tags_to_notes(outcome.addTags)

\* the requests add_tags_to_cards([card_id], [tag]) sends: cardsInfo, and
\* addTags when cardsInfo was answered
add_tags_to_cards_requests(card_id, outcome) ==
    IF ~Truthy(anki_request(outcome.cardsInfo, CardsInfoResult(card_id))) THEN 1 ELSE 2

RECURSIVE apply_tags(_, _, _, _)
\* the apply-tags command, its loop over the approved matches; in a dry run
\* cards_to_tag counts the "Would tag card" lines it prints
apply_tags(approved_matches_, outcomes, dry_run, stats) ==
    IF approved_matches_ = <<>> THEN stats
    ELSE LET match == Head(approved_matches_)
             success == add_tags_to_cards(match.card_id, Head(outcomes))
             sent == add_tags_to_cards_requests(match.card_id, Head(outcomes))
         IN  apply_tags(Tail(approved_matches_), Tail(outcomes), dry_run,
               IF dry_run THEN [stats EXCEPT !.cards_to_tag = @ + 1]
               ELSE IF success THEN [stats EXCEPT !.tags_applied = @ + 1, !.requests = @ + sent]
                    ELSE [stats EXCEPT !.errors = @ + 1, !.requests = @ + sent])

\* the items of a batch
TagItems == { [lesson |-> 1, card_id |-> 101, should_tag |-> TRUE],
              [lesson |-> 2, card_id |-> 103, should_tag |-> TRUE],
              [lesson |-> 1, card_id |-> 105, should_tag |-> FALSE] }

ItemOutcomes == [cardsInfo : RequestOutcomes, addTags : RequestOutcomes]

ApplyIdle ==
    /\ ap_items = <<>>
    /\ ap_outcomes = <<>>
    /\ ap_dry_run = TRUE
    /\ ap_fn = "none"
    /\ ap_stats = NoStats
    /\ ap_pc = "idle"

ApplyTagsToAnki ==
    /\ ap_pc = "start"
    /\ ap_stats' = apply_tags_to_anki(ap_items, ap_outcomes, ap_dry_run, NoStats)
    /\ ap_fn' = "apply_tags_to_anki"
    /\ ap_pc' = "done"
    /\ UNCHANGED <<ap_items, ap_outcomes, ap_dry_run>>
    /\ UNCHANGED NotApply

ApplyApprovedMatches ==
    /\ ap_pc = "start"
    /\ ap_stats' = apply_approved_matches(ap_items, ap_outcomes, ap_dry_run, NoStats)
    /\ ap_fn' = "apply_approved_matches"
    /\ ap_pc' = "done"
    /\ UNCHANGED <<ap_items, ap_outcomes, ap_dry_run>>
    /\ UNCHANGED NotApply

ApplyTagsCommand ==
    /\ ap_pc = "start"
    /\ ap_stats' = apply_tags(ap_items, ap_outcomes, ap_dry_run, NoStats)
    /\ ap_fn' = "apply-tags"
    /\ ap_pc' = "done"
    /\ UNCHANGED <<ap_items, ap_outcomes, ap_dry_run>>
    /\ UNCHANGED NotApply

(***************************************************************************)
(* Import of the V1 match files (v3/src/v1_importer.py)                    *)
(*                                                                         *)
(* The deck is the set of Hebrew field texts that the findCards query      *)
(* Hebrew:"<text>" finds a card for; the card found for a text is          *)
(* CardOf(text).                                                           *)
(***************************************************************************)
MaxImports == 2         \* import_v1 is run at most this many times

RECURSIVE DigitRun(_)
\* the digits a text starts with
DigitRun(s) ==
    IF s # <<>> /\ Head(s) \in DigitChars THEN <<Head(s)>> \o DigitRun(Tail(s)) ELSE <<>>

RECURSIVE extract_lesson_number(_)
\* re.search(r'L(\d+)', lesson_id): None, or the int of the first match
extract_lesson_number(lesson_id) ==
    IF lesson_id = <<>> THEN None
    ELSE IF Head(lesson_id) = "L" /\ DigitRun(Tail(lesson_id)) # <<>>
         THEN Some(ParseInt(DigitRun(Tail(lesson_id))))
         ELSE extract_lesson_number(Tail(lesson_id))

RECURSIVE CleanWord(_)
\* re.sub(r'[^א-ת\s]', '', hebrew_word)
CleanWord(w) ==
    IF w = <<>> THEN <<>>
    ELSE IF (HEB_ALEF <= Head(w) /\ Head(w) <= HEB_TAV) \/ Head(w) \in Whitespace
         THEN <<Head(w)>> \o CleanWord(Tail(w))
         ELSE CleanWord(Tail(w))

CardOf(text) == 100 + Len(text)

\* find_anki_card_id: the first card for the word, else for the word without
\* nikud and punctuation, else None
find_anki_card_id(hebrew_word, deck) ==
    IF hebrew_word \in deck THEN Some(CardOf(hebrew_word))
    ELSE IF CleanWord(hebrew_word) # hebrew_word /\ CleanWord(hebrew_word) \in deck
         THEN Some(CardOf(CleanWord(hebrew_word)))
         ELSE None

NoImportStats == [total_rows |-> 0, valid_lessons |-> 0, card_ids_found |-> 0,
                  card_ids_missing |-> 0, imported |-> 0, skipped_existing |-> 0]

RECURSIVE import_rows_NoSkip(_, _, _, _)
\* the loop of import_approved_matches without the is_word_processed check
import_rows_NoSkip(rows, deck, stats, imported_matches) ==
    IF rows = <<>> THEN [stats |-> stats, imported_matches |-> imported_matches]
    ELSE LET row == Head(rows)
             lesson_num == extract_lesson_number(row.id)
             card_id == find_anki_card_id(row.match_word, deck)
             s1 == [stats EXCEPT !.total_rows = @ + 1]
             s2 == [s1 EXCEPT !.valid_lessons = @ + 1]
         IN  IF lesson_num.none \/ lesson_num.value = 0
             THEN import_rows_NoSkip(Tail(rows), deck, s1, imported_matches)
             ELSE IF ~card_id.none /\ card_id.value # 0
             THEN import_rows_NoSkip(Tail(rows), deck,
                      [s2 EXCEPT !.card_ids_found = @ + 1, !.imported = @ + 1],
                      Append(imported_matches,
                             StoredMatch(lesson_num.value, row.heb_word, row.match_word,
                                         row.match_word_def, card_id.value, "v1_import",
                                         ParseInt(row.Levensht))))
             ELSE import_rows_NoSkip(Tail(rows), deck,
                      [s2 EXCEPT !.card_ids_missing = @ + 1], imported_matches)

RECURSIVE import_rows(_, _, _, _)
\* import_approved_matches, "for row in reader"
import_rows(rows, deck, stats, imported_matches) ==
    IF rows = <<>> THEN [stats |-> stats, imported_matches |-> imported_matches]
    ELSE LET row == Head(rows)
             lesson_num == extract_lesson_number(row.id)
             card_id == find_anki_card_id(row.match_word, deck)
             s1 == [stats EXCEPT !.total_rows = @ + 1]
             s2 == [s1 EXCEPT !.valid_lessons = @ + 1]
         IN  IF lesson_num.none \/ lesson_num.value = 0
             THEN import_rows(Tail(rows), deck, s1, imported_matches)
             ELSE IF is_word_processed(lesson_num.value, row.heb_word)
             THEN import_rows(Tail(rows), deck,
                      [s2 EXCEPT !.skipped_existing = @ + 1], imported_matches)
             ELSE IF ~card_id.none /\ card_id.value # 0
             THEN import_rows(Tail(rows), deck,
                      [s2 EXCEPT !.card_ids_found = @ + 1, !.imported = @ + 1],
                      Append(imported_matches,
                             StoredMatch(lesson_num.value, row.heb_word, row.match_word,
                                         row.match_word_def, card_id.value, "v1_import",
                                         ParseInt(row.Levensht))))
             ELSE import_rows(Tail(rows), deck,
                      [s2 EXCEPT !.card_ids_missing = @ + 1], imported_matches)

\* import_approved_matches(dry_run): the statistics, and the approved matches
\* and the approved file it leaves
import_approved_matches(rows, deck, dry_run) ==
    LET r == import_rows(rows, deck, NoImportStats, <<>>)
        merged == MergeMatches(approved_matches, r.imported_matches)
    IN  IF r.imported_matches # <<>> /\ ~dry_run
        THEN [stats |-> r.stats, saved |-> TRUE, approved_matches |-> merged,
              approved_file |->
                CsvFile({"lesson", "heb_word", "match_word", "match_word_def",
                         "score", "card_id"},
                        [i \in 1..Len(merged) |-> ApprovedRow(merged[i].val)])]
        ELSE [stats |-> r.stats, saved |-> FALSE, approved_matches |-> approved_matches,
              approved_file |-> approved_file]

RECURSIVE extra_rows(_, _, _, _)
\* import_extra_matches, "for row in reader"
extra_rows(rows, deck, stats, extra_matches_) ==
    IF rows = <<>> THEN [stats |-> stats, extra_matches |-> extra_matches_]
    ELSE LET row == Head(rows)
             lesson_num == ParseInt(row.Lesson)
             hebrew_word == row.AnkiID
             card_id == find_anki_card_id(hebrew_word, deck)
             s2 == [stats EXCEPT !.total_rows = @ + 1, !.valid_lessons = @ + 1]
         IN  IF ~card_id.none /\ card_id.value # 0
             THEN extra_rows(Tail(rows), deck,
                      [s2 EXCEPT !.card_ids_found = @ + 1, !.imported = @ + 1],
                      Append(extra_matches_,
                             [lesson |-> FormatInt(lesson_num), heb_word |-> hebrew_word,
                              card_id |-> FormatInt(card_id.value), notes |-> "V1 import"]))
             ELSE extra_rows(Tail(rows), deck, s2, extra_matches_)

\* import_extra_matches(dry_run): the statistics and the extra file it leaves;
\* mode 'a' if the file exists, else 'w' with the header
import_extra_matches(rows, deck, dry_run) ==
    LET r == extra_rows(rows, deck, NoImportStats, <<>>) IN
    [stats |-> r.stats,
     extra_file |->
       IF r.extra_matches # <<>> /\ ~dry_run
       THEN IF extra_file.exists
            THEN [extra_file EXCEPT !.rows = @ \o r.extra_matches]
            ELSE CsvFile({"lesson", "heb_word", "card_id", "notes"}, r.extra_matches)
       ELSE extra_file]

V1Row(id, heb_word, match_word, score) ==
    [id |-> id, heb_word |-> heb_word, match_word |-> match_word,
     match_word_def |-> "def", Levensht |-> score]

\* the rows of the V1 word file: shalom in lesson 1, its pointed spelling in the
\* same lesson matched to another card, a word of lesson 2, and a row whose id
\* names no lesson
V1WordRows ==
    << V1Row(<<"L", "0", "0", "1", ".", "S01">>, Shalom, Shalom, <<"0">>),
       V1Row(<<"L", "0", "0", "1", ".", "S02">>, ShalomPointed, ShalomPointed, <<"1">>),
       V1Row(<<"L", "0", "0", "2", ".", "S01">>, Boker, Boker, <<"2">>),
       V1Row(<<"N", "1">>, Boker, Boker, <<"0">>) >>

V1WordFiles == { SeqFilter(V1WordRows, keep) : keep \in SUBSET Range(V1WordRows) }

V1ExtraRows ==
    << [Lesson |-> <<"1">>, AnkiID |-> Shalom], [Lesson |-> <<"3">>, AnkiID |-> Boker] >>

V1ExtraFiles == { SeqFilter(V1ExtraRows, keep) : keep \in SUBSET Range(V1ExtraRows) }

ImportDecks == SUBSET {Shalom, Boker}

UnmatchedBoker ==
    CsvFile({"lesson", "heb_word", "context", "attempts"},
            << UnmatchedRow(UnmatchedWord(2, Boker, "ctx", 1)) >>)

ImportIdle ==
    /\ im_v1_words = <<>>
    /\ im_v1_extra = <<>>
    /\ im_deck = {}
    /\ im_dry_run = TRUE
    /\ im_runs = 0
    /\ im_stats = NoImportStats
    /\ im_pc = "idle"

\* V1Importer(): self.persistence = PersistenceManager()
NewImporter ==
    /\ im_pc = "new"
    /\ im_runs < MaxImports
    /\ im_dry_run' \in BOOLEAN
    /\ approved_matches' = _load_approved_matches
    /\ extra_matches' = _load_extra_matches
    /\ unmatched_words' = _load_unmatched_words
    /\ im_pc' = "approved"
    /\ UNCHANGED <<approved_file, extra_file, unmatched_file, pm_ret, pm_calls, pm_base>>
    /\ UNCHANGED <<im_v1_words, im_v1_extra, im_deck, im_runs, im_stats>>
    /\ UNCHANGED NotImportStore

\* import_all, first half: import_approved_matches(dry_run)
ImportApprovedMatches ==
    /\ im_pc = "approved"
    /\ LET r == import_approved_matches(im_v1_words, im_deck, im_dry_run) IN
         /\ approved_matches' = r.approved_matches
         /\ approved_file' = r.approved_file
         /\ im_stats' = r.stats
         /\ pm_ret' = IF r.saved
                      THEN [op |-> "save_approved_matches", result |-> TRUE, word |-> <<>>]
                      ELSE pm_ret
    /\ im_pc' = "extra"
    /\ UNCHANGED <<extra_matches, unmatched_words, extra_file, unmatched_file, pm_calls,
                   pm_base>>
    /\ UNCHANGED <<im_v1_words, im_v1_extra, im_deck, im_dry_run, im_runs>>
    /\ UNCHANGED NotImportStore

\* import_all, second half: import_extra_matches(dry_run)
ImportExtraMatches ==
    /\ im_pc = "extra"
    /\ LET r == import_extra_matches(im_v1_extra, im_deck, im_dry_run) IN
         /\ extra_file' = r.extra_file
         /\ im_stats' = r.stats
    /\ im_runs' = im_runs + 1
    /\ im_pc' = "new"
    /\ UNCHANGED <<approved_matches, extra_matches, unmatched_words, approved_file,
                   unmatched_file, pm_ret, pm_calls, pm_base>>
    /\ UNCHANGED <<im_v1_words, im_v1_extra, im_deck, im_dry_run>>
    /\ UNCHANGED NotImportStore

(***************************************************************************)
(* Generation-2 export: first lesson of a word (v2/src/anki_export.py)     *)
(*                                                                         *)
(* A lesson label is a str, here a sequence of digit characters; Python    *)
(* compares two str character by character.                                *)
(***************************************************************************)
MaxCurated == 2         \* each of the two files has at most this many rows

RECURSIVE StrLess(_, _)
\* a < b for two str of digits
StrLess(a, b) ==
    IF b = <<>> THEN FALSE
    ELSE IF a = <<>> THEN TRUE
    ELSE IF Head(a) # Head(b) THEN DigitVal(Head(a)) < DigitVal(Head(b))
    ELSE StrLess(Tail(a), Tail(b))

\* add_word_match that compares the lessons as numbers
add_word_match_Numeric(first_match_, anki_word, lesson) ==
    IF anki_word \in DictKeys(first_match_)
    THEN IF ParseInt(lesson) < ParseInt(DictVal(first_match_, anki_word))
         THEN DictSet(first_match_, anki_word, lesson)
         ELSE first_match_
    ELSE DictSet(first_match_, anki_word, lesson)

\* add_word_match(first_match, anki_word, lesson)
add_word_match(first_match_, anki_word, lesson) ==
    IF anki_word \in DictKeys(first_match_)
    THEN IF StrLess(lesson, DictVal(first_match_, anki_word))
         THEN DictSet(first_match_, anki_word, lesson)
         ELSE first_match_
    ELSE DictSet(first_match_, anki_word, lesson)

\* row['id'].split('.')[0][2:]
lesson_of_id(id) ==
    LET first == IF "." \in Range(id) THEN SubSeq(id, 1, IndexOf(id, ".") - 1) ELSE id
    IN  SubSeq(first, 3, Len(first))

RECURSIVE FoldWords(_, _)
\* the loop over the word-matches file
FoldWords(rows, fm) ==
    IF rows = <<>> THEN fm
    ELSE FoldWords(Tail(rows),
                   add_word_match(fm, Head(rows).match_word, lesson_of_id(Head(rows).id)))

RECURSIVE FoldExtra(_, _)
\* the loop over the extra-matches file
FoldExtra(rows, fm) ==
    IF rows = <<>> THEN fm
    ELSE FoldExtra(Tail(rows), add_word_match(fm, Head(rows).AnkiID, Head(rows).Lesson))

\* load_curated_word_matches(data_dir, extra_matches_file, word_matches_file)
load_curated_word_matches(words, extra) == FoldExtra(extra, FoldWords(words, <<>>))

\* ids of sections of lessons 1, 10 and 100
CuratedIds == { <<"L", "0", "0", "1", ".", "S", "0", "1">>,
                <<"L", "0", "1", "0", ".", "S", "0", "1">>,
                <<"L", "1", "0", "0", ".", "S", "0", "2">> }

\* labels of lessons 2, 9 and 10 as the extra-matches file writes them
CuratedLessons == { <<"2">>, <<"9">>, <<"1", "0">> }

CuratedWordRows == [id : CuratedIds, match_word : {Shalom, Boker}]
CuratedExtraRows == [Lesson : CuratedLessons, AnkiID : {Shalom, Boker}]

ExportIdle ==
    /\ ex_words = <<>>
    /\ ex_extra = <<>>
    /\ first_match = <<>>
    /\ ex_pc = "idle"

LoadCuratedWordMatches ==
    /\ ex_pc = "start"
    /\ first_match' = load_curated_word_matches(ex_words, ex_extra)
    /\ ex_pc' = "done"
    /\ UNCHANGED <<ex_words, ex_extra>>
    /\ UNCHANGED NotExport

(***************************************************************************)
(* From the extracted records to the media sync (v3/src/audio.py,          *)
(* v3/src/deck_sync.py)                                                    *)
(*                                                                         *)
(* An audio file of lesson directory L<ddd>-Hebrew ASSIMIL carries the     *)
(* album tag "<course> - L<ddd>" and a title "<section>-<hebrew>" whose    *)
(* section is the base of the file's stem.                                 *)
(***************************************************************************)
LessonAudio(d1, d2, d3, stem, section) ==
    [file   |-> Mp3File(<<>>, LessonDir(d1, d2, d3), stem),
     album  |-> <<"Assimil Hebrew", " - ", "L", d1, d2, d3>>,
     title  |-> section \o <<"-", "shalom">>]

LessonAudioUniverse ==
    { LessonAudio("0", "0", d3, st[1], st[2]) :
        d3 \in {"1", "2"},
        st \in { << <<"S01">>, <<"S01">> >>, << <<"S00", "-", "TITLE">>, <<"S00">> >>,
                 << <<"N3">>, <<"N3">> >>, << <<"T05">>, <<"T05">> >> } }

RECURSIVE SetToSeq(_)
\* the files of a directory in the order of a scan
SetToSeq(S) == IF S = {} THEN <<>>
               ELSE LET x == CHOOSE y \in S : TRUE IN <<x>> \o SetToSeq(S \ {x})

\* extract_audio_incremental over a course without working spreadsheet: the
\* metadata of every file that has it
ExtractedRecords(course) ==
    LET all == [i \in 1..Len(course) |->
                   extract_mp3_metadata(course[i].title, course[i].album)]
    IN  SeqFilter(all, { m \in Range(all) : m.ok })

\* the completed translation of a record: the english column filled in
Completed(records) ==
    [i \in 1..Len(records) |->
        Translation(records[i].id, records[i].hebrew, "hello", records[i].sound)]

ResolveIdle ==
    /\ rs_course = <<>>
    /\ rs_media = {}
    /\ rs_records = <<>>
    /\ rs_mapping = <<>>
    /\ rs_ret = NoCounts
    /\ rs_pc = "idle"

\* extract-audio over the course
ExtractAudio ==
    /\ rs_pc = "start"
    /\ rs_records' = ExtractedRecords(rs_course)
    /\ rs_pc' = "extracted"
    /\ UNCHANGED <<rs_course, rs_media, rs_mapping, rs_ret>>
    /\ UNCHANGED NotResolve

\* sync_media_files over the completed records, the mapping built from the
\* course directory, every storeMediaFile request answered
SyncExtracted ==
    /\ rs_pc = "extracted"
    /\ \E getOk \in BOOLEAN :
         LET r == sync_media_files(Completed(rs_records), rs_media,
                     [exists |-> TRUE,
                      mapping |-> create_media_mapping_file(
                                     [i \in 1..Len(rs_course) |-> rs_course[i].file])],
                     getOk, {}) IN
         /\ rs_media' = r.media
         /\ rs_mapping' = r.mapping_file.mapping
         /\ rs_ret' = [NoCounts EXCEPT !.uploaded = r.uploaded, !.skipped = r.skipped,
                                       !.failed = r.failed]
    /\ rs_pc' = "done"
    /\ UNCHANGED <<rs_course, rs_records>>
    /\ UNCHANGED NotResolve

(***************************************************************************)
(* SPECIFICATIONS                                                          *)
(***************************************************************************)
\* ---- the persistence store: runs of the tool on one data directory ----
InitPersist == PersistIdle /\ MapIdle /\ MetaIdle /\ TagIdle /\ IncIdle /\ MatchIdle /\ SyncIdle /\ CacheIdle /\ CmdIdle /\ NormIdle /\ NameIdle /\ ExtractIdle /\ PipeIdle /\ ApplyIdle /\ ImportIdle /\ ExportIdle /\ ResolveIdle

NewRun == PersistenceManagerInit

SaveApproved ==
    \E in \in PmInputs, c \in CardIds, writeOk \in DiskOutcomes :
        save_approved_matches(<<StoredMatch(in[1], in[2], normalize_hebrew_word(in[2]),
                                            "def", c, "approved", 0)>>, writeOk)

AddUnmatched ==
    \E in \in PmInputs, writeOk \in DiskOutcomes :
        /\ make_word_key(in[1], in[2]) \in DictKeys(unmatched_words)
              => DictVal(unmatched_words, make_word_key(in[1], in[2])).attempts < MaxAttempts
        /\ add_unmatched_word(in[1], in[2], "ctx", writeOk)

CreateTemplate == \E writeOk \in DiskOutcomes : create_extra_matches_template(writeOk)

NextPersist == NewRun \/ SaveApproved \/ AddUnmatched \/ CreateTemplate

SpecPersist == InitPersist /\ [][NextPersist]_vars

\* ---- building the media mapping of a course directory ----
InitMap ==
    /\ course_files \in FileListings(MaxCourseFiles)
    /\ media_mapping = <<>>
    /\ map_done = FALSE
    /\ PersistIdle /\ MetaIdle /\ TagIdle /\ IncIdle /\ MatchIdle /\ SyncIdle /\ CacheIdle /\ CmdIdle /\ NormIdle /\ NameIdle /\ ExtractIdle /\ PipeIdle /\ ApplyIdle /\ ImportIdle /\ ExportIdle /\ ResolveIdle

NextMap == CreateMediaMapping

SpecMap == InitMap /\ [][NextMap]_vars


\* ---- metadata extraction from one audio file ----
InitMeta ==
    /\ md_album \in Albums
    /\ md_title \in Titles
    /\ md_out = NoMetadata
    /\ md_done = FALSE
    /\ PersistIdle /\ MapIdle /\ TagIdle /\ IncIdle /\ MatchIdle /\ SyncIdle /\ CacheIdle /\ CmdIdle /\ NormIdle /\ NameIdle /\ ExtractIdle /\ PipeIdle /\ ApplyIdle /\ ImportIdle /\ ExportIdle /\ ResolveIdle

NextMeta == ExtractMetadata

SpecMeta == InitMeta /\ [][NextMeta]_vars

\* ---- incremental extraction against the working spreadsheet ----
InitInc ==
    /\ inc_rows \in UNION { [1..k -> SheetRows] : k \in 0..MaxRows }
    /\ inc_files \in ScanResults
    /\ inc_new = <<>>
    /\ inc_skipped = 0
    /\ inc_done = FALSE
    /\ PersistIdle /\ MapIdle /\ MetaIdle /\ TagIdle /\ MatchIdle /\ SyncIdle /\ CacheIdle /\ CmdIdle /\ NormIdle /\ NameIdle /\ ExtractIdle /\ PipeIdle /\ ApplyIdle /\ ImportIdle /\ ExportIdle /\ ResolveIdle

NextInc == ExtractAudioIncremental

SpecInc == InitInc /\ [][NextInc]_vars

\* ---- generating and parsing lesson tags ----
InitTag ==
    /\ tg_course \in Courses
    /\ tg_lesson \in 0..MaxTagLesson
    /\ tg_list = <<>>
    /\ tg_generated = <<>>
    /\ tg_parsed = Absent
    /\ tg_pc = "start"
    /\ PersistIdle /\ MapIdle /\ MetaIdle /\ IncIdle /\ MatchIdle /\ SyncIdle /\ CacheIdle /\ CmdIdle /\ NormIdle /\ NameIdle /\ ExtractIdle /\ PipeIdle /\ ApplyIdle /\ ImportIdle /\ ExportIdle /\ ResolveIdle

NextTag == GenerateAndParse \/ ParseOther

SpecTag == InitTag /\ [][NextTag]_vars

\* ---- matching lesson words against the deck ----
InitMatch ==
    /\ mt_deck \in Decks(MaxDeck)
    /\ similarity_threshold \in 0..MaxThreshold
    /\ cards = <<>>
    /\ hebrew_lookup = <<>>
    /\ mt_loaded = FALSE
    /\ mt_word = <<>>
    /\ mt_max = 0
    /\ mt_result = <<>>
    /\ mt_pc = "new"
    /\ PersistIdle /\ MapIdle /\ MetaIdle /\ TagIdle /\ IncIdle /\ SyncIdle /\ CacheIdle /\ CmdIdle /\ NormIdle /\ NameIdle /\ ExtractIdle /\ PipeIdle /\ ApplyIdle /\ ImportIdle /\ ExportIdle /\ ResolveIdle

NextMatch == LoadDeckCards \/ FindMatches

SpecMatch == InitMatch /\ [][NextMatch]_vars

\* ---- two sync runs over the same completed translations ----
InitSync ==
    /\ sy_translations \in TranslationLists \ {<<>>}
    /\ anki_notes = <<>>
    /\ anki_media \in { {}, { <<"assimil-", "L", "0", "0", "1", ".", "S01", ".mp3">> },
                        { <<"other.mp3">> } }
    /\ sy_mapping_file = [exists |-> FALSE, mapping |-> <<>>]
    /\ sy_run = 1
    /\ sy_pc = "cards"
    /\ sy_ret = NoCounts
    /\ sy_addNote = [r \in 1..2 |-> 0]
    /\ sy_storeMediaFile = [r \in 1..2 |-> 0]
    /\ sy_failed = [r \in 1..2 |-> [query |-> FALSE, write |-> FALSE]]
    /\ sy_before = <<>>
    /\ sy_added = <<>>
    /\ sy_actions = {}
    /\ sy_media_before = {}
    /\ sy_stored = {}
    /\ PersistIdle /\ MapIdle /\ MetaIdle /\ TagIdle /\ IncIdle /\ MatchIdle /\ CacheIdle /\ CmdIdle /\ NormIdle /\ NameIdle /\ ExtractIdle /\ PipeIdle /\ ApplyIdle /\ ImportIdle /\ ExportIdle /\ ResolveIdle

NextSync == SyncPhraseCards \/ SyncMediaFiles

SpecSync == InitSync /\ [][NextSync]_vars

\* ---- the deck cache over time ----
InitCache ==
    /\ ca_files = [f \in CacheFileNames |-> NoCacheFile]
    /\ ca_now = 0
    /\ ca_edited = FALSE
    /\ ca_op = CacheOp("idle", <<>>, NoMaxAge, FALSE, FALSE)
    /\ ca_before = [f \in CacheFileNames |-> NoCacheFile]
    /\ MatchIdle
    /\ PersistIdle /\ MapIdle /\ MetaIdle /\ TagIdle /\ IncIdle /\ SyncIdle /\ CmdIdle /\ NormIdle /\ NameIdle /\ ExtractIdle /\ PipeIdle /\ ApplyIdle /\ ImportIdle /\ ExportIdle /\ ResolveIdle

NextCache ==
    \/ Tick \/ EditDeck \/ CacheDeck \/ ClearCache \/ IsCacheValid \/ GetCachedDeck
    \/ GetCacheInfo \/ ListCachedDecks \/ LoadDeckCardsCached

SpecCache == InitCache /\ [][NextCache]_vars

\* ---- one command run from the shell ----
InitCmd ==
    /\ cm_gen \in {2, 3}
    /\ cm_cmd \in (IF cm_gen = 3 THEN V3Commands ELSE V2Commands)
    /\ cm_settings \in BOOLEAN
    /\ cm_lessons \in (IF cm_cmd = "match-words" /\ cm_gen = 3 THEN LessonRanges ELSE {<<>>})
    /\ cm_csv \in (IF cm_cmd = "apply-tags" THEN BOOLEAN ELSE {TRUE})
    /\ cm_bridge \in BOOLEAN
    /\ cm_exit = 0
    /\ cm_report = {}
    /\ cm_pc = "start"
    /\ PersistIdle /\ MapIdle /\ MetaIdle /\ TagIdle /\ IncIdle /\ MatchIdle /\ SyncIdle /\ CacheIdle /\ NormIdle /\ NameIdle /\ ExtractIdle /\ PipeIdle /\ ApplyIdle /\ ImportIdle /\ ExportIdle /\ ResolveIdle

NextCmd == RunCommand

SpecCmd == InitCmd /\ [][NextCmd]_vars

\* ---- normalising one word ----
InitNorm ==
    /\ nz_in \in TextsUpTo(NormChars, MaxWordLen)
    /\ nz_out = <<>>
    /\ nz_pc = "start"
    /\ PersistIdle /\ MapIdle /\ MetaIdle /\ TagIdle /\ IncIdle /\ MatchIdle /\ SyncIdle /\ CacheIdle /\ CmdIdle /\ NameIdle /\ ExtractIdle /\ PipeIdle /\ ApplyIdle /\ ImportIdle /\ ExportIdle /\ ResolveIdle

NextNorm == Normalize

SpecNorm == InitNorm /\ [][NextNorm]_vars

\* ---- the cache file names of one deck ----
InitName ==
    /\ nm_deck \in TextsUpTo(NameChars, MaxNameLen)
    /\ nm_cache = <<>>
    /\ nm_meta = <<>>
    /\ PersistIdle /\ MapIdle /\ MetaIdle /\ TagIdle /\ IncIdle /\ MatchIdle /\ SyncIdle /\ CacheIdle /\ CmdIdle /\ NormIdle /\ ExtractIdle /\ PipeIdle /\ ApplyIdle /\ ImportIdle /\ ExportIdle /\ ResolveIdle

NextName == GetCachePath \/ GetMetadataPath

SpecName == InitName /\ [][NextName]_vars

\* ---- sequential word extraction over a course ----
InitExtract ==
    /\ wx_course \in { CourseDirs(c) : c \in CourseChoices }
    /\ wx_max \in 0..2
    /\ seen_words = {}
    /\ lesson_words = <<>>
    /\ wx_pc = "start"
    /\ PersistIdle /\ MapIdle /\ MetaIdle /\ TagIdle /\ IncIdle /\ MatchIdle /\ SyncIdle /\ CacheIdle /\ CmdIdle /\ NormIdle /\ NameIdle /\ PipeIdle /\ ApplyIdle /\ ImportIdle /\ ExportIdle /\ ResolveIdle

NextExtract == ProcessLessonsSequential \/ ProcessLessonsAgain

SpecExtract == InitExtract /\ [][NextExtract]_vars

\* ---- runs of the matching pipeline over one course and one deck ----
InitPipe ==
    /\ pl_course \in PipeCourses
    /\ pl_deck \in PipeDecks
    /\ pl_max \in {0, 1}
    /\ similarity_threshold \in {0, 1}
    /\ approved_file \in {NoFile, ApprovedShalom}
    /\ lesson_matches = <<>>
    /\ pl_runs = 0
    /\ pl_before = {}
    /\ pl_unmatched_before = <<>>
    /\ pl_queried = {}
    /\ pl_pc = "new"
    /\ approved_matches = <<>> /\ extra_matches = <<>> /\ unmatched_words = <<>>
    /\ extra_file = NoFile /\ unmatched_file = NoFile
    /\ pm_ret = [op |-> "init", result |-> TRUE, word |-> <<>>]
    /\ pm_calls = [k \in AllKeys |-> 0]
    /\ pm_base = [k \in AllKeys |-> 0]
    /\ mt_deck = <<>> /\ cards = <<>> /\ hebrew_lookup = <<>> /\ mt_loaded = FALSE
    /\ mt_word = <<>> /\ mt_max = 0 /\ mt_result = <<>> /\ mt_pc = "idle"
    /\ MapIdle /\ MetaIdle /\ TagIdle /\ IncIdle /\ SyncIdle /\ CacheIdle /\ CmdIdle /\ NormIdle /\ NameIdle /\ ExtractIdle /\ ApplyIdle /\ ImportIdle /\ ExportIdle /\ ResolveIdle

NextPipe == NewPipeline \/ ProcessLessons

SpecPipe == InitPipe /\ [][NextPipe]_vars

\* ---- one batch of tags applied by one of the three functions ----
InitApply ==
    /\ \E n \in 0..MaxItems :
         /\ ap_items \in [1..n -> TagItems]
         /\ ap_outcomes \in [1..n -> ItemOutcomes]
    /\ ap_dry_run \in BOOLEAN
    /\ ap_fn = "none"
    /\ ap_stats = NoStats
    /\ ap_pc = "start"
    /\ PersistIdle /\ MapIdle /\ MetaIdle /\ TagIdle /\ IncIdle /\ MatchIdle /\ SyncIdle /\ CacheIdle /\ CmdIdle /\ NormIdle /\ NameIdle /\ ExtractIdle /\ PipeIdle /\ ImportIdle /\ ExportIdle /\ ResolveIdle

NextApply == ApplyTagsToAnki \/ ApplyApprovedMatches \/ ApplyTagsCommand

SpecApply == InitApply /\ [][NextApply]_vars

\* ---- imports of the V1 files into a store ----
InitImport ==
    /\ im_v1_words \in V1WordFiles
    /\ im_v1_extra \in V1ExtraFiles
    /\ im_deck \in ImportDecks
    /\ im_dry_run = TRUE
    /\ im_runs = 0
    /\ im_stats = NoImportStats
    /\ im_pc = "new"
    /\ approved_file \in {NoFile, ApprovedShalom}
    /\ unmatched_file \in {NoFile, UnmatchedBoker}
    /\ extra_file = NoFile
    /\ approved_matches = <<>> /\ extra_matches = <<>> /\ unmatched_words = <<>>
    /\ pm_ret = [op |-> "init", result |-> TRUE, word |-> <<>>]
    /\ pm_calls = [k \in AllKeys |-> 0]
    /\ pm_base = [k \in AllKeys |-> 0]
    /\ MapIdle /\ MetaIdle /\ TagIdle /\ IncIdle /\ MatchIdle /\ SyncIdle /\ CacheIdle /\ CmdIdle /\ NormIdle /\ NameIdle /\ ExtractIdle /\ PipeIdle /\ ApplyIdle /\ ExportIdle /\ ResolveIdle

NextImport == NewImporter \/ ImportApprovedMatches \/ ImportExtraMatches

SpecImport == InitImport /\ [][NextImport]_vars

\* ---- the curated matches of two files folded into first_match ----
InitExport ==
    /\ \E n \in 0..MaxCurated : ex_words \in [1..n -> CuratedWordRows]
    /\ \E n \in 0..MaxCurated : ex_extra \in [1..n -> CuratedExtraRows]
    /\ first_match = <<>>
    /\ ex_pc = "start"
    /\ PersistIdle /\ MapIdle /\ MetaIdle /\ TagIdle /\ IncIdle /\ MatchIdle /\ SyncIdle /\ CacheIdle /\ CmdIdle /\ NormIdle /\ NameIdle /\ ExtractIdle /\ PipeIdle /\ ApplyIdle /\ ImportIdle /\ ResolveIdle

NextExport == LoadCuratedWordMatches

SpecExport == InitExport /\ [][NextExport]_vars

\* ---- a course extracted and its audio synced ----
InitResolve ==
    /\ rs_course \in { SetToSeq(S) : S \in { T \in SUBSET LessonAudioUniverse :
                                               Cardinality(T) <= MaxCourseFiles } }
    /\ rs_media \in { {}, { <<"assimil-", "L", "0", "0", "1", ".", "S01", ".mp3">> },
                      { <<"L", "0", "0", "1", ".", "S01", ".mp3">> } }
    /\ rs_records = <<>>
    /\ rs_mapping = <<>>
    /\ rs_ret = NoCounts
    /\ rs_pc = "start"
    /\ PersistIdle /\ MapIdle /\ MetaIdle /\ TagIdle /\ IncIdle /\ MatchIdle /\ SyncIdle /\ CacheIdle /\ CmdIdle /\ NormIdle /\ NameIdle /\ ExtractIdle /\ PipeIdle /\ ApplyIdle /\ ImportIdle /\ ExportIdle

NextResolve == ExtractAudio \/ SyncExtracted

SpecResolve == InitResolve /\ [][NextResolve]_vars

(***************************************************************************)
(* Claims on the persistence store                                         *)
(***************************************************************************)
InMaps(k) == (IF k \in DictKeys(approved_matches) THEN 1 ELSE 0)
           + (IF k \in DictKeys(extra_matches) THEN 1 ELSE 0)
           + (IF k \in DictKeys(unmatched_words) THEN 1 ELSE 0)

\* C1: after any sequence of PersistenceManager operations no key
\* "L<3-digit lesson>:<normalized word>" is present in more than one of the
\* approved, extra and unmatched maps.
C1_OneClassification == \A k \in get_processed_words : InMaps(k) <= 1

\* the records of the dict d / the rows of the file f that belong to key k
RecordsOf(d, k) == {i \in 1..Len(d) : d[i].key = k}
RowsOf(f, k) ==
    {i \in 1..Len(f.rows) : make_word_key(ParseInt(f.rows[i].lesson), f.rows[i].heb_word) = k}

\* C3: after n >= 1 calls of add_unmatched_word on one key (same lesson, words with
\* the same normalized form) there is exactly one unmatched record of the key, its
\* attempts are n more than when the manager was constructed (n for a key that was
\* not yet unmatched), is_word_processed is true for every spelling of the key, and
\* the unmatched file as rewritten by the call holds that one record.
C3_AttemptsCounted ==
    \A in \in PmInputs :
        LET k == make_word_key(in[1], in[2]) IN
        pm_calls[k] >= 1 =>
            /\ Cardinality(RecordsOf(unmatched_words, k)) = 1
            /\ DictVal(unmatched_words, k).attempts = pm_base[k] + pm_calls[k]
            /\ is_word_processed(in[1], in[2])
            /\ pm_ret.op = "add_unmatched_word" =>
                  /\ unmatched_file.exists
                  /\ Cardinality(RowsOf(unmatched_file, k)) = 1
                  /\ \A i \in RowsOf(unmatched_file, k) :
                        UnmatchedEntry(unmatched_file.rows[i]).val
                            = DictVal(unmatched_words, k)

\* C3 witness: a key added twice in one run, the second time under its pointed
\* spelling, starting from a store where it was not unmatched
C3_Witness ==
    LET k == make_word_key(1, Shalom) IN
    /\ pm_base[k] = 0
    /\ pm_calls[k] = 2
    /\ pm_ret.op = "add_unmatched_word"
    /\ pm_ret.word = ShalomPointed
    /\ k \in DictKeys(unmatched_words)
    /\ DictVal(unmatched_words, k).heb_word = Shalom
    /\ DictVal(unmatched_words, k).attempts = 2

(***************************************************************************)
(* Claims on the media mapping                                             *)
(***************************************************************************)
\* the parent directory is named exactly L<3 digits>-Hebrew ASSIMIL
C10_InLessonDir(f) ==
    /\ Len(f.dir) = 5
    /\ f.dir[1] = "L"
    /\ \A i \in 2..4 : f.dir[i] \in DigitChars
    /\ f.dir[5] = "-Hebrew ASSIMIL"

\* the file stem up to its first hyphen
C10_StemBase(stem) ==
    IF \E i \in 1..Len(stem) : stem[i] = "-"
    THEN SubSeq(stem, 1, (CHOOSE i \in 1..Len(stem) :
                            stem[i] = "-" /\ \A j \in 1..(i - 1) : stem[j] # "-") - 1)
    ELSE stem

\* assimil-L<3 digits>.<stem up to its first hyphen>.mp3
C10_Key(f) ==
    <<"assimil-", "L", f.dir[2], f.dir[3], f.dir[4], ".">> \o C10_StemBase(f.stem) \o <<".mp3">>

TitleSections == { <<"S02">>, <<"T01">> }

RECURSIVE Contains(_, _)
\* sub occurs in s as a run of consecutive tokens
Contains(s, sub) ==
    IF Len(s) < Len(sub) THEN FALSE
    ELSE StartsWith(s, sub) \/ Contains(Tail(s), sub)

\* C7 as stated: for an audio file whose album ends in the lesson label "L"
\* followed by a 3-digit number NNN and whose title is "<section>-<hebrew>",
\* metadata extraction produces id "LNNN.<section>", english "NA", and a tags
\* string containing both "assimil" and "assimil-NNN" (L007 gives assimil-007).
C7_TagKeepsAllDigits ==
    md_done =>
      \A lab \in LessonLabels, sec \in TitleSections :
        (EndsWith(md_album, lab) /\ StartsWith(md_title, sec \o <<"-">>)) =>
          /\ md_out.ok
          /\ md_out.id = lab \o <<".">> \o sec
          /\ md_out.english = "NA"
          /\ Contains(md_out.tags, <<"assimil">>)
          /\ Contains(md_out.tags, <<"assimil-">> \o SubSeq(lab, 2, 4))

\* C7, amended: for an audio file whose album is the lesson label "L" followed
\* by a 3-digit number, or ends in " - " followed by that label, and whose title
\* is "<section>-<hebrew>", metadata extraction produces id "LNNN.<section>",
\* english "NA", and a tags string containing "assimil" and "assimil-" followed
\* by the label without its first two characters (L007 gives assimil-07), and
\* not containing "assimil-NNN".
C7_TagDropsTwoChars ==
    md_done =>
      \A lab \in LessonLabels, sec \in TitleSections :
        ((md_album = lab \/ EndsWith(md_album, <<" - ">> \o lab))
             /\ StartsWith(md_title, sec \o <<"-">>)) =>
          /\ md_out.ok
          /\ md_out.id = lab \o <<".">> \o sec
          /\ md_out.english = "NA"
          /\ Contains(md_out.tags, <<"assimil">>)
          /\ Contains(md_out.tags, <<"assimil-">> \o SubSeq(lab, 3, 4))
          /\ ~Contains(md_out.tags, <<"assimil-">> \o SubSeq(lab, 2, 4))

C7_Witness ==
    /\ md_done
    /\ md_album = <<"Assimil Hebrew", " - ", "L", "0", "0", "7">>
    /\ md_title = <<"S02", "-", "shalom olam", "*">>
    /\ md_out.id = <<"L", "0", "0", "7", ".", "S02">>
    /\ md_out.tags = <<"assimil", " ", "assimil-", "0", "7">>

(***************************************************************************)
(* Claims on the incremental extraction                                    *)
(***************************************************************************)
\* the ids of the rows that carry a translation
C8_Completed ==
    { inc_rows[i].id : i \in { j \in 1..Len(inc_rows) :
                                 inc_rows[j].english \notin {"", "NA"} } }

\* the records of the scanned files, in scan order
C8_Scanned ==
    LET recs == [i \in 1..Len(inc_files) |->
                    extract_mp3_metadata(inc_files[i].title, inc_files[i].album)]
    IN  SeqFilter(recs, { r \in Range(recs) : r.ok })

\* C8: incremental audio extraction returns exactly the scanned records whose
\* derived id is not among the completed ids of the working spreadsheet (english
\* present and not "NA"); the skipped count is the number of scanned files whose
\* id is in that set; a row with english "NA" does not cause its id to be skipped.
C8_NewAndSkipped ==
    inc_done =>
      /\ inc_new = SeqFilter(C8_Scanned,
                             { r \in Range(C8_Scanned) : r.id \notin C8_Completed })
      /\ inc_skipped = Cardinality({ i \in 1..Len(C8_Scanned) :
                                       C8_Scanned[i].id \in C8_Completed })
      /\ \A i \in 1..Len(inc_rows) :
           (inc_rows[i].english = "NA" /\ inc_rows[i].id \notin C8_Completed) =>
             \A j \in 1..Len(C8_Scanned) :
               C8_Scanned[j].id = inc_rows[i].id => C8_Scanned[j] \in Range(inc_new)

\* one id completed and skipped, one id pending with "NA" and returned, one file
\* that yields no record
C8_Witness ==
    /\ inc_done
    /\ inc_rows = << [id |-> <<"L", "0", "0", "7", ".", "S02">>, english |-> "hello"],
                     [id |-> <<"L", "0", "0", "7", ".", "T01">>, english |-> "NA"] >>
    /\ inc_files = ScannedUniverse
    /\ inc_skipped = 1
    /\ Len(inc_new) = 2
    /\ inc_new[1].id = <<"L", "0", "0", "7", ".", "T01">>

(***************************************************************************)
(* Claims on the tag utilities                                             *)
(***************************************************************************)
\* the lower-case spelling of each course name used
C9_Lower(c) ==
    CASE c = <<"a", "s", "s", "i", "m", "i", "l">> -> <<"a", "s", "s", "i", "m", "i", "l">>
      [] c = <<"A", "s", "s", "i", "m", "i", "l">> -> <<"a", "s", "s", "i", "m", "i", "l">>
      [] c = <<"H", "E">> -> <<"h", "e">>

\* n written with at least two digits
C9_TwoDigits(n) ==
    IF n < 10 THEN <<"0", Digits[n + 1]>>
    ELSE IF n < 100 THEN <<Digits[(n \div 10) + 1], Digits[(n % 10) + 1]>>
    ELSE <<Digits[(n \div 100) + 1], Digits[((n \div 10) % 10) + 1], Digits[(n % 10) + 1]>>

\* tag has the form "<deckTag>::L<digits>"
C9_IsLessonTag(tag, deckTag) ==
    \E k \in 1..3 :
      /\ Len(tag) = Len(deckTag) + 3 + k
      /\ SubSeq(tag, 1, Len(deckTag) + 3) = deckTag \o <<":", ":", "L">>
      /\ \A i \in (Len(deckTag) + 4)..Len(tag) : tag[i] \in DigitChars

\* C9: for every course name c and lesson number n >= 0, generate_lesson_tags(c, n)
\* is the list [lower(c), lower(c) + "::L" + n zero-padded to 2 digits];
\* parse_lesson_from_tags on that list, with extra unrelated tags around it,
\* returns n; and on a list with no tag of the form "<deckTag>::L<digits>" it
\* returns absent.
C9_TagRoundTrip ==
    /\ tg_pc = "roundtrip" =>
         /\ tg_generated = << C9_Lower(tg_course),
                              C9_Lower(tg_course) \o <<":", ":", "L">> \o C9_TwoDigits(tg_lesson) >>
         /\ tg_parsed = [found |-> TRUE, lesson |-> tg_lesson]
    /\ (tg_pc = "other"
          /\ \A i \in 1..Len(tg_list) : ~C9_IsLessonTag(tg_list[i], C9_Lower(tg_course))) =>
         tg_parsed = Absent

\* "Assimil", lesson 3, parsed back from ["other", "assimil", "assimil::L03", "he"]
C9_Witness ==
    /\ tg_pc = "roundtrip"
    /\ tg_course = <<"A", "s", "s", "i", "m", "i", "l">>
    /\ tg_lesson = 3
    /\ tg_list = << <<"o", "t", "h", "e", "r">>,
                    <<"a", "s", "s", "i", "m", "i", "l">>,
                    <<"a", "s", "s", "i", "m", "i", "l", ":", ":", "L", "0", "3">>,
                    <<"h", "e">> >>
    /\ tg_parsed = [found |-> TRUE, lesson |-> 3]

(***************************************************************************)
(* Claims on the matcher                                                   *)
(***************************************************************************)
\* the normalized query of the last lookup
MtQuery == normalize_hebrew_word(mt_word)

\* the loaded cards whose normalized Hebrew equals the normalized query
MtExactCards == { c \in Range(cards) : c.normalized_hebrew = MtQuery }

\* the other loaded cards within the threshold
MtFuzzyCards ==
    { c \in Range(cards) \ MtExactCards :
        levenshtein_distance(MtQuery, c.normalized_hebrew) <= similarity_threshold }

\* C4: for every loaded deck, query word and maxCandidates >= 1, if some card's
\* normalized Hebrew equals the normalized query then the first result is such a
\* card, with score 0 and type 'exact'; and every 'exact' result precedes every
\* 'fuzzy' result.
C4_ExactFirst ==
    mt_pc = "found" =>
      /\ MtExactCards # {} =>
           /\ Len(mt_result) >= 1
           /\ mt_result[1].anki_card \in MtExactCards
           /\ mt_result[1].similarity_score = 0
           /\ mt_result[1].match_type = "exact"
      /\ \A i, j \in 1..Len(mt_result) :
           (mt_result[i].match_type = "exact" /\ mt_result[j].match_type = "fuzzy") => i < j

\* the pointed query finds the card "shalom" exactly, before the fuzzy "balum",
\* whose Hebrew text sorts lower
C4_Witness ==
    /\ mt_pc = "found"
    /\ mt_word = ShalomPointed
    /\ Len(mt_result) = 2
    /\ mt_result[1] = WordMatch(AnkiCard(101, Shalom, Shalom), 0, "exact")
    /\ mt_result[2] = WordMatch(AnkiCard(104, Balum, Balum), 1, "fuzzy")

\* the score C5 gives a card: 0 when exact, else its edit distance
C5_Score(c) ==
    IF c \in MtExactCards THEN 0 ELSE levenshtein_distance(MtQuery, c.normalized_hebrew)

C5_KeyLeq(c1, c2) ==
    \/ C5_Score(c1) < C5_Score(c2)
    \/ C5_Score(c1) = C5_Score(c2) /\ LexLeq(c1.hebrew, c2.hebrew)

\* C5: find_matches(word, maxCandidates) returns exactly the first maxCandidates
\* elements of the list of all exact cards (score 0) plus all other loaded cards
\* whose edit distance to the normalized query is <= the threshold, sorted by
\* (score, card Hebrew text).
C5_FirstOfExactPlusFuzzy ==
    mt_pc = "found" =>
      LET all == MtExactCards \cup MtFuzzyCards
          n == IF Cardinality(all) < mt_max THEN Cardinality(all) ELSE mt_max
          got == { mt_result[i].anki_card : i \in 1..Len(mt_result) }
      IN  /\ Len(mt_result) = n
          /\ Cardinality(got) = n
          /\ got \subseteq all
          /\ \A i \in 1..Len(mt_result) :
               mt_result[i].similarity_score = C5_Score(mt_result[i].anki_card)
          /\ \A i \in 1..(Len(mt_result) - 1) :
               C5_KeyLeq(mt_result[i].anki_card, mt_result[i + 1].anki_card)
          /\ \A c \in all \ got : \A d \in got : C5_KeyLeq(d, c)

\* C6: every result of type 'fuzzy' has an edit distance between the normalized
\* query and the candidate's normalized Hebrew that is <= the similarity threshold.
C6_FuzzyWithinThreshold ==
    mt_pc = "found" =>
      \A i \in 1..Len(mt_result) :
        mt_result[i].match_type = "fuzzy" =>
          levenshtein_distance(MtQuery, mt_result[i].anki_card.normalized_hebrew)
             <= similarity_threshold

\* a fuzzy result right at the threshold, with a farther card in the deck left out
C6_Witness ==
    /\ mt_pc = "found"
    /\ mt_word = Shelo
    /\ similarity_threshold = 2
    /\ \E i \in 1..Len(cards) : cards[i].normalized_hebrew = normalize_hebrew_word(Boker)
    /\ \E i \in 1..Len(mt_result) :
         /\ mt_result[i].match_type = "fuzzy"
         /\ mt_result[i].anki_card.hebrew = Balum
         /\ mt_result[i].similarity_score = 2
    /\ \A i \in 1..Len(mt_result) : mt_result[i].anki_card.hebrew # Boker

(***************************************************************************)
(* Claims on the deck and media sync                                       *)
(***************************************************************************)
\* C2: running sync_phrase_cards followed by sync_media_files twice over an
\* unchanged set of completed translations issues no addNote and no
\* storeMediaFile request in the second run, for every set of completed phrase
\* records (read here in the claim's favour: when every request of the first
\* run and every query of the second run was answered).
C2_SecondRunIssuesNothing ==
    (/\ sy_pc = "done"
     /\ ~sy_failed[1].query /\ ~sy_failed[1].write
     /\ ~sy_failed[2].query) =>
       /\ sy_addNote[2] = 0
       /\ sy_storeMediaFile[2] = 0

(***************************************************************************)
(* Claims on the deck cache                                                *)
(***************************************************************************)
\* the operations that are neither cache_deck / refresh_cache nor clear_cache
C11_Reads ==
    \/ ca_op.name \in {"load_deck_cards", "is_cache_valid", "get_cache_info",
                       "list_cached_decks"}
    \/ ca_op.name = "get_cached_deck" /\ ~ca_op.auto_refresh

\* C11: the cache files change only by an explicit cache_deck / refresh_cache or
\* clear_cache: load_deck_cards, get_cached_deck with auto_refresh = False,
\* is_cache_valid, get_cache_info and list_cached_decks leave every cache file as
\* it was; and with no max age a cache whose two files exist is valid whatever
\* its age.
C11_CacheOnlyExplicit ==
    /\ C11_Reads => ca_files = ca_before
    /\ (ca_op.name = "is_cache_valid" /\ ~ca_op.max_age.given) =>
         (ca_op.ok <=> /\ ca_files[get_cache_path(ca_op.deck)].exists
                       /\ ca_files[get_metadata_path(ca_op.deck)].exists)

\* the matcher is loaded from a two-hour-old snapshot that lacks the card added
\* since, and the cache stays as it was
C11_Witness ==
    /\ ca_op.name = "load_deck_cards"
    /\ ca_op.deck = MyDeck
    /\ ca_edited
    /\ ca_now - ca_files[get_metadata_path(MyDeck)].cached_at = 2
    /\ ca_files[get_cache_path(MyDeck)].exists
    /\ Len(ca_files[get_cache_path(MyDeck)].cards) = 1
    /\ Len(cards) = 1
    /\ ca_files = ca_before


(***************************************************************************)
(* Claims on the persistence files across runs                             *)
(***************************************************************************)

\* the keys of the records a persistence file holds, as a later run reads them
FileKeys(f) ==
    { make_word_key(ParseInt(f.rows[i].lesson), f.rows[i].heb_word) : i \in 1..Len(f.rows) }

C13_Embedded(notes) ==
    { sound_search(notes[i].Front).filename :
        i \in { k \in 1..Len(notes) : sound_search(notes[k].Front).found } }

\* C13: re-sync only creates cards. sync_phrase_cards sends addNote solely for
\* completed records whose [sound:<filename>] file name is not embedded in the
\* Front field of any note the deck held when the sync began, and it issues no
\* action that updates, retags or deletes a note.
C13_AddNoteOnlyForMissing ==
    (sy_run \in 1..2 /\ sy_pc \in {"media", "done"}) =>
       /\ \A i \in 1..Len(sy_added) :
             /\ sound_search(sy_added[i].sound).found
             /\ sound_search(sy_added[i].sound).filename \notin C13_Embedded(sy_before)
       /\ sy_actions \subseteq {"findNotes", "notesInfo", "addNote"}


C14_NeedsSettings ==
    (cm_gen = 3 /\ cm_cmd \in {"status", "extract-audio", "sync-phrases", "match-words",
                               "apply-tags", "cache-deck"})
    \/ (cm_gen = 2 /\ cm_cmd \in {"extract-audio", "match-words", "export-anki"})

\* a --lessons text that is neither empty, "all", a number, nor <text>-<number>
C14_BadRange ==
    /\ cm_lessons \notin {<<>>, All}
    /\ ~IsIntText(cm_lessons)
    /\ ~\E i \in 1..Len(cm_lessons) :
          /\ cm_lessons[i] = "-"
          /\ "-" \notin Range(SubSeq(cm_lessons, 1, i - 1))
          /\ IsIntText(SubSeq(cm_lessons, i + 1, Len(cm_lessons)))

C15_Idempotent ==
    nz_pc = "done" =>
      /\ normalize_hebrew_word(nz_out) = nz_out
      /\ \A i \in 1..Len(nz_out) :
            ~(1456 <= nz_out[i] /\ nz_out[i] <= 1476) /\ ~(1425 <= nz_out[i] /\ nz_out[i] <= 1455)

\* a word with white space around a ligature and a vowel point was normalised
C15_Witness ==
    /\ nz_pc = "done"
    /\ nz_in = <<SPACE, 1520, 1464>>
    /\ nz_out = <<1493, 1493>>


(***************************************************************************)
(* Claims on the cache file names                                          *)
(***************************************************************************)
\* the deck-derived part of a file name: all but its last token, the suffix
C16_Stem(path) == SubSeq(path, 1, Len(path) - 1)

\* the characters of the deck name that are kept, without the trailing spaces
C16_Kept ==
    LET kept == SelectSeq(nm_deck, LAMBDA c : c \notin {"/", ":", "."})
        last == IF \E i \in 1..Len(kept) : kept[i] # " "
                THEN CHOOSE i \in 1..Len(kept) :
                        kept[i] # " " /\ \A j \in (i + 1)..Len(kept) : kept[j] = " "
                ELSE 0
    IN  SubSeq(kept, 1, last)

\* C16: the cache file name is a function of the deck name alone (every call
\* gives the same file for the same name), and its deck-derived part holds only
\* alphanumeric characters, hyphens and underscores, with an underscore in the
\* place of every space of the kept characters.
C16_SafeFileName ==
    /\ \A i, j \in 1..Len(nm_cache) : nm_cache[i] = nm_cache[j]
    /\ \A i, j \in 1..Len(nm_meta) : nm_meta[i] = nm_meta[j]
    /\ \A p \in Range(nm_cache) \cup Range(nm_meta) :
         /\ p[Len(p)] \in {"_cache.pkl", "_meta.json"}
         /\ Range(C16_Stem(p)) \subseteq {"a", "Z", "7", "-", "_"}
         /\ Len(C16_Stem(p)) = Len(C16_Kept)
         /\ \A k \in 1..Len(C16_Kept) :
              C16_Stem(p)[k] = (IF C16_Kept[k] = " " THEN "_" ELSE C16_Kept[k])

\* both paths were asked twice for a deck name with a space inside
C16_Witness ==
    /\ nm_deck = <<"a", " ", "Z">>
    /\ nm_cache = << <<"a", "_", "Z", "_cache.pkl">>, <<"a", "_", "Z", "_cache.pkl">> >>
    /\ Len(nm_meta) = 2


(***************************************************************************)
(* Claims on the word extraction                                           *)
(***************************************************************************)
\* the lessons that were processed and hold the normalized word
C18_LessonsWith(normalized) ==
    { lesson_words[i].key : i \in { k \in 1..Len(lesson_words) :
          \E j \in 1..Len(lesson_words[k].val) :
              lesson_words[k].val[j].normalized = normalized } }

\* C18: lesson directories are processed in ascending order of the lesson
\* number parsed from the directory name, so for every normalized word the
\* occurrence flagged first_occurrence lies in the numerically lowest processed
\* lesson that holds the word, for any directory names L<digits>, zero-padded
\* or not.
C18_FirstInLowestLesson ==
    wx_pc = "done" =>
      \A i \in 1..Len(lesson_words) :
        \A j \in 1..Len(lesson_words[i].val) :
          LET w == lesson_words[i].val[j] IN
          w.first_occurrence =>
            \A l \in C18_LessonsWith(w.normalized) : w.lesson <= l


(***************************************************************************)
(* Claims on the matching pipeline                                         *)
(***************************************************************************)
\* C17: when a first-occurrence word yields no match and its key was already
\* recorded as unmatched by an earlier run, the run increments the stored
\* attempt counter: after k runs over the same lessons in which the word never
\* matched, its attempts value is k (as an induction over the runs: a record
\* that counted the runs before this one counts this one too).
C17_AttemptsCountRuns ==
    (pl_pc = "new" /\ pl_runs >= 1) =>
      \A i \in 1..Len(unmatched_words) :
        (/\ unmatched_words[i].key \in DictKeys(pl_unmatched_before)
         /\ DictVal(pl_unmatched_before, unmatched_words[i].key).attempts = pl_runs - 1)
          => unmatched_words[i].val.attempts = pl_runs


\* the first-occurrence words of the lessons the run processed
C19_NewWords ==
    LET x == process_lessons_sequential(pl_course, pl_max).lesson_words IN
    UNION { Range(get_new_words_by_lesson(x, x[i].key)) : i \in 1..Len(x) }

\* the pending matches of a word
C19_Pending(w) ==
    IF w.lesson \notin DictKeys(lesson_matches) THEN {}
    ELSE { i \in 1..Len(DictVal(lesson_matches, w.lesson)) :
             DictVal(lesson_matches, w.lesson)[i].lesson_word = w }

C19_Key(w) == make_word_key(w.lesson, w.word)

\* case 1: the key was in the store before the run, the matcher was not asked
C19_Skipped(w) == C19_Key(w) \in pl_before /\ <<w.lesson, w.word>> \notin pl_queried

\* case 2: exactly one pending match, the first result of find_matches
C19_Matched(w) ==
    /\ Cardinality(C19_Pending(w)) = 1
    /\ LET matches == find_matches(cards, hebrew_lookup, similarity_threshold, w.word,
                                   MaxCandidates)
       IN  /\ matches # <<>>
           /\ \A i \in C19_Pending(w) :
                 DictVal(lesson_matches, w.lesson)[i].word_match = matches[1]

\* case 3: recorded in the unmatched store by this run
C19_Unmatched(w) ==
    /\ C19_Key(w) \in DictKeys(unmatched_words) \ pl_before
    /\ C19_Pending(w) = {}

C20_Sent ==
    { i \in 1..Len(ap_items) : ap_fn = "apply_tags_to_anki" => ap_items[i].should_tag }

\* the items whose bridge call fails: addTags, or the cardsInfo request that
\* apply_approved_matches and apply-tags send before it
C20_Failed ==
    { i \in C20_Sent :
        \/ ap_outcomes[i].addTags # "ok"
        \/ ap_fn # "apply_tags_to_anki" /\ ap_outcomes[i].cardsInfo # "ok" }

\* C20: in live tag application, an item whose bridge call fails (transport
\* failure or an answer with an error field) increments the error counter and
\* not the tags-applied counter, and the remaining items are still processed;
\* for apply_tags_to_anki, apply_approved_matches and the apply-tags command.
C20_FailuresCounted ==
    (ap_pc = "done" /\ ~ap_dry_run) =>
      /\ ap_stats.errors = Cardinality(C20_Failed)
      /\ ap_stats.tags_applied = Cardinality(C20_Sent \ C20_Failed)

\* the matches a live run would tag: for apply_tags_to_anki those with
\* should_tag, for the other two every approved match
C21_WouldTag ==
    { i \in 1..Len(ap_items) : ap_fn = "apply_tags_to_anki" => ap_items[i].should_tag }

\* C21: in dry-run mode apply_tags_to_anki, apply_approved_matches and the
\* apply-tags command send no request to the bridge, tags_applied and errors
\* stay 0, and cards_to_tag is the number of matches that would be tagged.
C21_DryRunNoCalls ==
    (ap_pc = "done" /\ ap_dry_run) =>
      /\ ap_stats.requests = 0
      /\ ap_stats.tags_applied = 0
      /\ ap_stats.errors = 0
      /\ ap_stats.cards_to_tag = Cardinality(C21_WouldTag)

\* a dry run of apply_approved_matches over two matches whose requests would
\* both have failed
C21_Witness ==
    /\ ap_pc = "done" /\ ap_dry_run
    /\ ap_fn = "apply_approved_matches"
    /\ Len(ap_items) = 2
    /\ \A i \in 1..2 : ap_outcomes[i].cardsInfo = "transport"
    /\ ap_stats.cards_to_tag = 2
    /\ ap_stats.requests = 0


(***************************************************************************)
(* Claims on the media sync                                                *)
(***************************************************************************)
\* sync_media_files has returned
C22_MediaSynced == (sy_run = 2 /\ sy_pc = "cards") \/ sy_pc = "done"

\* the names the bridge held under the assimil- prefix before the sync
C22_Stored == { f \in sy_media_before : StartsWith(f, <<"assimil-">>) }

\* uploaded + skipped + failed is the number of distinct needed names
C22_CountsAddUp ==
    C22_MediaSynced =>
      sy_ret.uploaded + sy_ret.skipped + sy_ret.failed
        = Cardinality(needed_files_of(sy_translations))

\* C22: media sync sends storeMediaFile only for names that the translations
\* need and that the bridge does not hold under the assimil- prefix, never for
\* a name already stored, and uploaded + skipped + failed is the number of
\* distinct needed names.
C22_StoreOnlyMissing ==
    C22_MediaSynced =>
      /\ sy_stored \subseteq needed_files_of(sy_translations) \ C22_Stored
      /\ sy_stored \cap sy_media_before = {}
      /\ sy_ret.uploaded + sy_ret.skipped + sy_ret.failed
           = Cardinality(needed_files_of(sy_translations))

(***************************************************************************)
(* Claims on the import of the V1 files                                    *)
(***************************************************************************)
\* the rows of the V1 word file that import_approved_matches resolves: a lesson
\* in the id, a key the store does not hold, and a card in the deck
C23_Resolved ==
    { i \in 1..Len(im_v1_words) :
        /\ ~extract_lesson_number(im_v1_words[i].id).none
        /\ extract_lesson_number(im_v1_words[i].id).value # 0
        /\ ~is_word_processed(extract_lesson_number(im_v1_words[i].id).value,
                              im_v1_words[i].heb_word)
        /\ ~find_anki_card_id(im_v1_words[i].match_word, im_deck).none }

C23_ResolvedKeys ==
    { make_word_key(extract_lesson_number(im_v1_words[i].id).value, im_v1_words[i].heb_word) :
        i \in C23_Resolved }

C24_Lessons(word) ==
    { ParseInt(SubSeq(ex_words[i].id, 2, IndexOf(ex_words[i].id, ".") - 1)) :
        i \in { k \in 1..Len(ex_words) : ex_words[k].match_word = word } }
    \cup { ParseInt(ex_extra[i].Lesson) :
             i \in { k \in 1..Len(ex_extra) : ex_extra[k].AnkiID = word } }

\* C24: after the rows of the word-matches file and of the extra-matches file
\* are folded, each word is tagged with the numerically smallest lesson among
\* its rows, also when the labels differ in digit count or a lesson is 100.
C24_SmallestLesson ==
    ex_pc = "done" =>
      \A word \in DictKeys(first_match) :
        /\ ParseInt(DictVal(first_match, word)) \in C24_Lessons(word)
        /\ \A l \in C24_Lessons(word) : ParseInt(DictVal(first_match, word)) <= l

\* the same for extra rows alone
C24_ExtraOnly == ex_words = <<>> => C24_SmallestLesson

\* the same for rows of lessons below 100 of the word-matches file alone
C24_WordsBelow100 ==
    (ex_extra = <<>> /\ \A i \in 1..Len(ex_words) : ex_words[i].id[2] = "0")
      => C24_SmallestLesson

(***************************************************************************)
(* Claims on the path from extraction to media sync                        *)
(***************************************************************************)
\* the file names in the sound fields of the extracted records
C25_SoundNames ==
    { sound_search(rs_records[i].sound).filename : i \in 1..Len(rs_records) }

\* C25: the file name in the sound field of every record extracted from a
\* file of a lesson directory is a key of the media mapping built for the
\* course, so media sync uploads or skips it and counts none as failed.
C25_AudioResolves ==
    rs_pc = "done" =>
      /\ C25_SoundNames \subseteq DictKeys(rs_mapping)
      /\ rs_ret.failed = 0

\* every file of the course has a record and a mapping key
C25_AllMapped ==
    rs_pc = "done" =>
      /\ Len(rs_records) = Len(rs_course)
      /\ Cardinality(DictKeys(rs_mapping)) = Len(rs_course)

\* the mapping key of a record's file is the name in its sound field behind
\* the prefix "assimil-"
C25_KeysArePrefixed ==
    rs_pc = "done" =>
      DictKeys(rs_mapping) = { <<"assimil-">> \o n : n \in C25_SoundNames }

(***************************************************************************)
(* Claims on the number of matches                                         *)
(***************************************************************************)
\* C26: find_matches(word, maxCandidates) returns exactly min(maxCandidates,
\* E + F) results, E the loaded cards whose normalized Hebrew equals the
\* normalized query and F the other loaded cards within the threshold; with
\* 0 < E < maxCandidates the exact cards use up no fuzzy slot.
C26_ExactlyMin ==
    mt_pc = "found" =>
      LET e == Cardinality(MtExactCards)
          f == Cardinality(MtFuzzyCards \ MtExactCards)
      IN  Len(mt_result) = IF mt_max < e + f THEN mt_max ELSE e + f

\* the same without exact card, and with the exact cards filling every slot
C26_NoExactOrFull ==
    (Cardinality(MtExactCards) = 0 \/ Cardinality(MtExactCards) >= mt_max)
      => C26_ExactlyMin

(***************************************************************************)
(* Claims on the deck refresh                                              *)
(***************************************************************************)
\* a step of cache_deck that reports success
C27_Refreshed ==
    /\ ca_op'.name = "cache_deck" /\ ca_op'.ok
    /\ ca_before' = ca_files
    /\ ca_now' = ca_now /\ ca_edited' = ca_edited

\* C27: a deck refresh that reports success has stored one processed card for
\* every card of the deck whose Hebrew field holds Hebrew text, also when a
\* cardsInfo batch fails (a failed batch makes the refresh report failure).
C27_SuccessIsComplete ==
    [][ C27_Refreshed =>
          ca_files'[get_cache_path(ca_op'.deck)].cards
            = ProcessCards(AnkiDeckCards(ca_op'.deck, ca_edited), <<>>, <<>>).cards ]_vars

(***************************************************************************)
(* Claims on the cache files of distinct decks                             *)
(***************************************************************************)

\* a step that is cache_deck(A) or clear_cache(A) for one named deck A
C28_OnDeck(A) ==
    /\ ca_op'.name \in {"cache_deck", "clear_cache"}
    /\ ca_op'.deck = A
    /\ ca_before' = ca_files
    /\ ca_now' = ca_now /\ ca_edited' = ca_edited

\* the snapshot and the metadata of deck B are what they were
C28_Untouched(B) ==
    /\ ca_files'[get_cache_path(B)] = ca_files[get_cache_path(B)]
    /\ ca_files'[get_metadata_path(B)] = ca_files[get_metadata_path(B)]

\* C28: for any two different deck names A and B, cache_deck(A) and
\* clear_cache(A) leave the cached snapshot and the metadata of B unchanged
C28_DistinctDecks ==
    [][ \A A \in CacheDecks, B \in CacheDecks :
          (A # B /\ C28_OnDeck(A)) => C28_Untouched(B) ]_vars

\* the same for two deck names whose safe file names differ
C28_DistinctFiles ==
    [][ \A A \in CacheDecks, B \in CacheDecks :
          (safe_name(A) # safe_name(B) /\ C28_OnDeck(A)) => C28_Untouched(B) ]_vars

\* a deck read from the cache holds only cards of that deck
C28_OwnCards ==
    \A B \in CacheDecks :
      (ca_op.name = "get_cached_deck" /\ ca_op.deck = B /\ ca_op.ok)
        => \A k \in 1..Len(ca_files[get_cache_path(B)].cards) :
             \E edited \in BOOLEAN :
               ca_files[get_cache_path(B)].cards[k].card_id
                 \in { AnkiDeckCards(B, edited)[j].cardId :
                         j \in 1..Len(AnkiDeckCards(B, edited)) }

(***************************************************************************)
(* Claims on the extra-matches template                                    *)
(***************************************************************************)

\* the first run that constructs a PersistenceManager after the template was
\* created in a store that had no extra-matches file: the manager of the step
\* before has loaded no extra matches, the file on disk is the template
C29_RunAfterTemplate ==
    /\ extra_file.exists
    /\ extra_matches = <<>>
    /\ pm_ret'.op = "init"
    /\ extra_file' = extra_file /\ approved_file' = approved_file
    /\ unmatched_file' = unmatched_file

\* C29: creating the extra-matches template marks no word as processed:
\* the new PersistenceManager answers is_word_processed(lesson, word) as the
\* manager before it did, for every (lesson, word)
C29_TemplateMarksNothing ==
    [][ C29_RunAfterTemplate =>
          \A in \in PmInputs :
            is_word_processed(in[1], in[2])' = is_word_processed(in[1], in[2]) ]_vars

\* the same for every word but the one of the template's example row
C29_OnlyExampleRow ==
    [][ C29_RunAfterTemplate =>
          \A in \in PmInputs :
            make_word_key(in[1], in[2]) # make_word_key(1, Shalom)
              => is_word_processed(in[1], in[2])' = is_word_processed(in[1], in[2]) ]_vars

(***************************************************************************)
(* Claims on the word statistics                                           *)
(***************************************************************************)

\* the recorded occurrences of a normalized word flagged first_occurrence
C30_FirstOccurrences(normalized) ==
    { k \in 1..Len(get_all_new_words(lesson_words)) :
        get_all_new_words(lesson_words)[k].normalized = normalized }

\* C30: after any sequence of process_lessons_sequential calls on one
\* WordExtractor, every normalized word of the seen set has exactly one
\* recorded occurrence with first_occurrence = true across lesson_words, so
\* get_word_stats reports new_words = unique_words (also when two directories
\* parse to the same lesson number or when the extractor is run twice)
C30_OneFirstOccurrence ==
    wx_pc \in {"done", "again"} =>
      /\ \A n \in seen_words : Cardinality(C30_FirstOccurrences(n)) = 1
      /\ get_word_stats(seen_words, lesson_words).new_words
           = get_word_stats(seen_words, lesson_words).unique_words

\* the same after one call on a new extractor over directories whose lesson
\* numbers differ
C30_OneRunDistinctLessons ==
    (/\ wx_pc = "done"
     /\ \A d \in wx_course, e \in wx_course :
          get_lesson_number(d.name) = get_lesson_number(e.name) => d = e)
      => /\ \A n \in seen_words : Cardinality(C30_FirstOccurrences(n)) = 1
         /\ get_word_stats(seen_words, lesson_words).new_words
              = get_word_stats(seen_words, lesson_words).unique_words

\* one call over two directories of one lesson number
C30_SameLessonTwice ==
    (/\ wx_pc = "done"
     /\ \E d \in wx_course, e \in wx_course :
          d # e /\ get_lesson_number(d.name) = get_lesson_number(e.name))
      => get_word_stats(seen_words, lesson_words).new_words
           = get_word_stats(seen_words, lesson_words).unique_words

\* a second call on the same extractor over directories whose lesson numbers differ
C30_SecondRun ==
    (/\ wx_pc = "again"
     /\ \A d \in wx_course, e \in wx_course :
          get_lesson_number(d.name) = get_lesson_number(e.name) => d = e)
      => get_word_stats(seen_words, lesson_words).new_words
           = get_word_stats(seen_words, lesson_words).unique_words

====
